---- MODULE Spec2Model ----
(***************************************************************************)
(* He Tu / Luo Shu visualisation: the animation state machine of App.tsx,  *)
(* its one-shot 1000 ms timers, and the per-frame callbacks of             *)
(* HeTuScene.tsx (AnimatedPoints, PointLine) and LoShuScene.tsx            *)
(* (SceneContent) that turn the state into a blend factor, an elapsed      *)
(* time and a target mode.                                                 *)
(***************************************************************************)
EXTENDS Integers, Sequences, FiniteSets, TLC

(* ------------------------------------------------------------------ *)
(* Bounds of the model                                                 *)
(* ------------------------------------------------------------------ *)

\* Number of setTimeout callbacks that may be pending at once.
MaxTimers == 3

\* The same while the render loop is modelled along with the application.
MaxFrameTimers == 2

\* Fixed-point resolution of the blend factor: 1.0 is MorphScale.
MorphScale == 100

\* Fixed-point resolution of the damping velocity (blend units per tick).
VelScale == 10

\* Frame deltas in ticks of 1/30 s: half a second and a whole one (slow or
\* stalled frames); a delta of 0 is always among the inputs.
DeltaShort == 15

DeltaLong == 30

\* Cap of the elapsed animation time, in ticks.
MaxTime == 36

Deltas == {0, DeltaShort, DeltaLong}

(* ------------------------------------------------------------------ *)
(* types.ts                                                            *)
(* ------------------------------------------------------------------ *)

AnimationState ==
    {"STATIC", "MORPHING", "RUNNING", "RETURNING", "PAUSED",
     "HELIX_MORPHING", "HELIX_RUNNING", "HELIX_PAUSED"}

ViewMode == {"HETU", "LOSHU"}

LoShuMorphState == {"PLANE", "SPHERE", "PROJECTION"}

\* keyof LoShuLayerState
LayerKeys == {"dots", "numbers", "trigrams", "directions", "lines"}

\* { dots: true, numbers: false, trigrams: false, directions: false,
\*   lines: false }
DotsOnly == [k \in LayerKeys |-> k = "dots"]

GalaxyFamily == {"MORPHING", "RUNNING", "PAUSED"}

HelixFamily == {"HELIX_MORPHING", "HELIX_RUNNING", "HELIX_PAUSED"}

\* The states a transition enters together with a setTimeout.
TimeBoxed == {"MORPHING", "HELIX_MORPHING", "RETURNING"}

(* ------------------------------------------------------------------ *)
(* State                                                               *)
(* ------------------------------------------------------------------ *)

VARIABLES
    viewMode,     \* App: useState(ViewMode.HETU)
    animState,    \* App: useState(AnimationState.STATIC)
    lastMode,     \* App: useState('GALAXY')
    timers,       \* pending setTimeout callbacks, oldest first; each is the
                  \* state its updater compares curr with
    lsMorph,      \* App: useState(LoShuMorphState.PLANE)
    alignTrigger, \* App: useState(0)
    autoRotate,   \* App: useState(false)
    lsRunning,    \* App: useState(false), the energy flow ("flying star")
    lsSphereRotating, \* App: useState(false)
    lsLayers,     \* App: useState({dots: true, numbers: false, ...})
    timeRef,      \* AnimatedPoints: useRef(0), elapsed animation time (ticks)
    morphRef,     \* AnimatedPoints: useRef(0), blend factor (fixed point)
    morphVel,     \* morphRef.__damp.velocity_current (fixed point)
    modeRef,      \* AnimatedPoints: useRef('NONE')
    dotInputs,    \* blend factor, time and mode the dot positions now set on
                  \* the meshes were computed from
    lineInputs,   \* the same for the vertices of the two PointLine instances
    morphVal,     \* SceneContent: useRef(0), Luo Shu blend factor
    morphValVel,  \* morphVal.__damp.velocity_current
    call          \* the latest evaluation of a geometry function: its name,
                  \* its arguments and the value it returned

\* The rest of App's He Tu state and of its Luo Shu state.
heTuUi == <<alignTrigger, autoRotate>>

loShuUi == <<lsRunning, lsSphereRotating, lsLayers>>

appVars == <<viewMode, animState, lastMode, timers, lsMorph,
             alignTrigger, autoRotate, lsRunning, lsSphereRotating, lsLayers>>

heTuRefs == <<timeRef, morphRef, morphVel, modeRef, dotInputs, lineInputs>>

loShuRefs == <<morphVal, morphValVel>>

vars == <<viewMode, animState, lastMode, timers, lsMorph,
          alignTrigger, autoRotate, lsRunning, lsSphereRotating, lsLayers,
          timeRef, morphRef, morphVel, modeRef, dotInputs, lineInputs,
          morphVal, morphValVel, call>>

\* No geometry function has been evaluated.
NoCall == [fn |-> "NONE", args |-> << >>, result |-> << >>]

\* The two PointLine instances of AnimatedPoints (Yang tail, Yin tail).
PointLines == {"yang", "yin"}

\* No position has been computed since the scene was mounted.
NotDrawn == [morph |-> -1, time |-> -1, helix |-> FALSE]

(* ------------------------------------------------------------------ *)
(* App.tsx: timers                                                     *)
(* ------------------------------------------------------------------ *)

\* The state a timer callback advances to when its guard matches.
Settled(guard) ==
    CASE guard = "MORPHING" -> "RUNNING"
      [] guard = "HELIX_MORPHING" -> "HELIX_RUNNING"
      [] guard = "RETURNING" -> "STATIC"

\* Mutant: the updater sets the settled state without comparing curr.
TimerUpdateUnguarded(guard, curr) == Settled(guard)

\* setAnimState(curr => curr === guard ? settled : curr)
TimerUpdate(guard, curr) ==
    IF curr = guard THEN Settled(guard) ELSE curr

\* Mutant: the handlers set the state without scheduling a timer.
ScheduleDropped(q, guard) == q

\* setTimeout(() => ..., 1000): every delay is 1000 ms, so callbacks run in
\* the order in which they were scheduled.
Schedule(q, guard) == Append(q, guard)

\* Mutant: timers fire only while the He Tu diagram is shown.
TimerFireWhileHeTu ==
    /\ viewMode = "HETU"
    /\ timers # << >>
    /\ animState' = TimerUpdate(Head(timers), animState)
    /\ timers' = Tail(timers)
    /\ UNCHANGED <<viewMode, lastMode, lsMorph, heTuUi, loShuUi>>
    /\ UNCHANGED <<heTuRefs, loShuRefs, call>>

\* The oldest pending timer fires.
TimerFire ==
    /\ timers # << >>
    /\ animState' = TimerUpdate(Head(timers), animState)
    /\ timers' = Tail(timers)
    /\ UNCHANGED <<viewMode, lastMode, lsMorph, heTuUi, loShuUi>>
    /\ UNCHANGED <<heTuRefs, loShuRefs, call>>

(* ------------------------------------------------------------------ *)
(* App.tsx: He Tu click handlers                                       *)
(* ------------------------------------------------------------------ *)

\* Mutant: a galaxy click in the helix family resumes the galaxy at once.
GalaxyNextNoMorph(s) ==
    IF s \in HelixFamily THEN "RUNNING"
    ELSE IF s \in {"STATIC", "RETURNING"} THEN "MORPHING"
    ELSE IF s = "RUNNING" THEN "PAUSED"
    ELSE IF s = "PAUSED" THEN "RUNNING"
    ELSE s

\* handleGalaxyClick: the state it sets, given the state it was rendered with.
GalaxyNext(s) ==
    IF s \in HelixFamily THEN "MORPHING"
    ELSE IF s \in {"STATIC", "RETURNING"} THEN "MORPHING"
    ELSE IF s = "RUNNING" THEN "PAUSED"
    ELSE IF s = "PAUSED" THEN "RUNNING"
    ELSE s

\* Mutant: pausing schedules a timer as well.
GalaxySchedulesOnPause(s) ==
    s \in HelixFamily \cup {"STATIC", "RETURNING", "RUNNING"}

\* handleGalaxyClick schedules a timer exactly on the two MORPHING branches.
GalaxySchedules(s) == s \in HelixFamily \cup {"STATIC", "RETURNING"}

GalaxyClickUpTo(limit) ==
    /\ viewMode = "HETU"
    /\ GalaxySchedules(animState) => Len(timers) < limit
    /\ lastMode' = "GALAXY"
    /\ animState' = GalaxyNext(animState)
    /\ timers' = IF GalaxySchedules(animState)
                   THEN Schedule(timers, "MORPHING") ELSE timers
    /\ UNCHANGED <<viewMode, lsMorph, heTuUi, loShuUi>>
    /\ UNCHANGED <<heTuRefs, loShuRefs, call>>

GalaxyClick == GalaxyClickUpTo(MaxTimers)

\* Mutant: a helix click in the galaxy family first returns to the cube.
HelixNextViaReturn(s) ==
    IF s \in GalaxyFamily THEN "RETURNING"
    ELSE IF s \in {"STATIC", "RETURNING"} THEN "HELIX_MORPHING"
    ELSE IF s = "HELIX_RUNNING" THEN "HELIX_PAUSED"
    ELSE IF s = "HELIX_PAUSED" THEN "HELIX_RUNNING"
    ELSE s

\* handleHelixClick
HelixNext(s) ==
    IF s \in GalaxyFamily THEN "HELIX_MORPHING"
    ELSE IF s \in {"STATIC", "RETURNING"} THEN "HELIX_MORPHING"
    ELSE IF s = "HELIX_RUNNING" THEN "HELIX_PAUSED"
    ELSE IF s = "HELIX_PAUSED" THEN "HELIX_RUNNING"
    ELSE s

HelixSchedules(s) == s \in GalaxyFamily \cup {"STATIC", "RETURNING"}

HelixClickUpTo(limit) ==
    /\ viewMode = "HETU"
    /\ HelixSchedules(animState) => Len(timers) < limit
    /\ lastMode' = "HELIX"
    /\ animState' = HelixNext(animState)
    /\ timers' = IF HelixSchedules(animState)
                   THEN Schedule(timers, "HELIX_MORPHING") ELSE timers
    /\ UNCHANGED <<viewMode, lsMorph, heTuUi, loShuUi>>
    /\ UNCHANGED <<heTuRefs, loShuRefs, call>>

HelixClick == HelixClickUpTo(MaxTimers)

\* Mutant: the reset handler lacks its STATIC guard.
ResetActsAlways(s) == TRUE

\* handleReset: if (animState !== STATIC) { setLastMode; RETURNING; timer }
ResetActs(s) == s # "STATIC"

ResetLastMode(s) == IF s \in HelixFamily THEN "HELIX" ELSE "GALAXY"

\* The reset button is disabled while animState is STATIC; the handler's own
\* guard gives the same result, so the click is modelled in every state.
ResetUpTo(limit) ==
    /\ viewMode = "HETU"
    /\ ResetActs(animState) => Len(timers) < limit
    /\ IF ResetActs(animState)
         THEN /\ lastMode' = ResetLastMode(animState)
              /\ animState' = "RETURNING"
              /\ timers' = Schedule(timers, "RETURNING")
         ELSE UNCHANGED <<lastMode, animState, timers>>
    /\ UNCHANGED <<viewMode, lsMorph, heTuUi, loShuUi>>
    /\ UNCHANGED <<heTuRefs, loShuRefs, call>>

Reset == ResetUpTo(MaxTimers)

\* onClick={() => setViewMode(v)}.  App renders HeTuScene or LoShuScene by
\* viewMode, so a change of view unmounts one scene and mounts the other with
\* fresh refs; setting the current view again re-renders nothing.
SelectView(v) ==
    /\ viewMode' = v
    /\ IF v # viewMode
         THEN /\ timeRef' = 0
              /\ morphRef' = 0
              /\ morphVel' = 0
              /\ modeRef' = "NONE"
              /\ dotInputs' = NotDrawn
              /\ lineInputs' = [l \in PointLines |-> NotDrawn]
              /\ morphVal' = 0
              /\ morphValVel' = 0
         ELSE UNCHANGED <<heTuRefs, loShuRefs>>
    /\ UNCHANGED <<animState, lastMode, timers, lsMorph, call>>
    /\ UNCHANGED <<heTuUi, loShuUi>>

\* Mutant: the morph button steps through all three morph states.
LsMorphCycle(m) ==
    IF m = "PLANE" THEN "SPHERE"
    ELSE IF m = "SPHERE" THEN "PROJECTION" ELSE "PLANE"

\* Luo Shu morph button: setLsMorph(prev => prev === PLANE ? SPHERE : PLANE)
LsMorphNext(m) == IF m = "PLANE" THEN "SPHERE" ELSE "PLANE"

LoShuMorphToggle ==
    /\ viewMode = "LOSHU"
    /\ lsMorph' = LsMorphNext(lsMorph)
    /\ UNCHANGED <<viewMode, animState, lastMode, timers>>
    /\ UNCHANGED <<heTuUi, loShuUi>>
    /\ UNCHANGED <<heTuRefs, loShuRefs, call>>

(* ------------------------------------------------------------------ *)
(* App.tsx: the other He Tu controls and the Luo Shu controls          *)
(* ------------------------------------------------------------------ *)

\* Number of clicks on the align button that are followed.
MaxAligns == 1

\* handleToggleAutoRotate: setAutoRotate(prev => !prev)
ToggleAutoRotate ==
    /\ viewMode = "HETU"
    /\ autoRotate' = ~autoRotate
    /\ UNCHANGED <<viewMode, animState, lastMode, timers, lsMorph>>
    /\ UNCHANGED <<alignTrigger, loShuUi>>
    /\ UNCHANGED <<heTuRefs, loShuRefs, call>>

\* handleAlign: setAlignTrigger(prev => prev + 1); setAutoRotate(false)
Align ==
    /\ viewMode = "HETU"
    /\ alignTrigger < MaxAligns
    /\ alignTrigger' = alignTrigger + 1
    /\ autoRotate' = FALSE
    /\ UNCHANGED <<viewMode, animState, lastMode, timers, lsMorph>>
    /\ UNCHANGED loShuUi
    /\ UNCHANGED <<heTuRefs, loShuRefs, call>>

\* The flow and the rotate button are disabled while lsMorph is PLANE.
FlowButtonsEnabled(m) == m # "PLANE"

\* Flow button: setLsRunning(!lsRunning)
LoShuFlowToggle ==
    /\ viewMode = "LOSHU"
    /\ FlowButtonsEnabled(lsMorph)
    /\ lsRunning' = ~lsRunning
    /\ UNCHANGED <<viewMode, animState, lastMode, timers, lsMorph>>
    /\ UNCHANGED <<heTuUi, lsSphereRotating, lsLayers>>
    /\ UNCHANGED <<heTuRefs, loShuRefs, call>>

\* Rotate button: setLsSphereRotating(!lsSphereRotating)
LoShuRotateToggle ==
    /\ viewMode = "LOSHU"
    /\ FlowButtonsEnabled(lsMorph)
    /\ lsSphereRotating' = ~lsSphereRotating
    /\ UNCHANGED <<viewMode, animState, lastMode, timers, lsMorph>>
    /\ UNCHANGED <<heTuUi, lsRunning, lsLayers>>
    /\ UNCHANGED <<heTuRefs, loShuRefs, call>>

\* Mutant: the updater inverts every layer.
ToggledAll(prev, key) == [k \in LayerKeys |-> ~prev[k]]

\* prev => ({ ...prev, [key]: !prev[key] })
Toggled(prev, key) == [prev EXCEPT ![key] = ~prev[key]]

\* toggleLayer(key)
ToggleLayer(key) ==
    /\ viewMode = "LOSHU"
    /\ lsLayers' = Toggled(lsLayers, key)
    /\ UNCHANGED <<viewMode, animState, lastMode, timers, lsMorph>>
    /\ UNCHANGED <<heTuUi, lsRunning, lsSphereRotating>>
    /\ UNCHANGED <<heTuRefs, loShuRefs, call>>

\* Mutant: the reset leaves the layers as they are.
ResetLayersKept == lsLayers

\* The layers handleLoShuReset sets.
ResetLayers == DotsOnly

\* handleLoShuReset
LoShuReset ==
    /\ viewMode = "LOSHU"
    /\ lsMorph' = "PLANE"
    /\ lsRunning' = FALSE
    /\ lsSphereRotating' = FALSE
    /\ lsLayers' = ResetLayers
    /\ UNCHANGED <<viewMode, animState, lastMode, timers, heTuUi>>
    /\ UNCHANGED <<heTuRefs, loShuRefs, call>>

(* ------------------------------------------------------------------ *)
(* easing.damp (maath), as called by the two scenes                    *)
(* ------------------------------------------------------------------ *)

\* smoothTime arguments, in ticks of 1/30 s: 0.8 s and 1.2 s.
SmoothTimeHeTu == 24

SmoothTimeLoShu == 36

\* Resolution of the easing factor t.
EaseScale == 1000

Abs(a) == IF a < 0 THEN -a ELSE a

\* Division rounding toward zero.
Trunc(a, b) == IF a >= 0 THEN a \div b ELSE -((-a) \div b)

\* Mutant: the easing factor is left out (t = 1).
EaseNone(T, d) == EaseScale

\* exp(x) = 1 / (1 + x + 0.48 x^2 + 0.235 x^3) at x = omega * delta with
\* omega = 2 / smoothTime, scaled by EaseScale.
EaseExp(T, d) ==
    LET n == 25 * T * T * T
        den == n + 50 * d * T * T + 48 * d * d * T + 47 * d * d * d
    IN  (n * EaseScale) \div den

\* The overshoot test of damp: (originalTo - current > 0) === (output > originalTo)
Overshoots(cur, target, out) == ((target - cur) > 0) = (out > target)

\* damp(current, 'current', target, smoothTime, delta) with the default
\* maxSpeed = Infinity and eps = 0.001: the new value and velocity.
Damp(cur, vel, target, T, d) ==
    IF Abs(cur - target) * 1000 <= MorphScale
    THEN [value |-> target, velocity |-> vel]
    ELSE LET t == EaseExp(T, d)
             change == cur - target
             \* temp * VelScale * T, temp = (velocity + omega * change) * delta
             tempKT == (vel * T + 2 * change * VelScale) * d
             newVel == Trunc(Trunc(vel * T * T - 2 * tempKT, T * T) * t,
                             EaseScale)
             out == target + Trunc((change * VelScale * T + tempKT) * t,
                                   VelScale * T * EaseScale)
         IN  IF Overshoots(cur, target, out)
             THEN [value |-> target, velocity |-> 0]
             ELSE [value |-> out, velocity |-> newVel]

(* ------------------------------------------------------------------ *)
(* HeTuScene.tsx: the frame callbacks                                  *)
(* ------------------------------------------------------------------ *)

GLOBAL_SPEED == 1

\* targetMorph of AnimatedPoints.useFrame
TargetMorph(s) ==
    IF s \in {"STATIC", "RETURNING"} THEN 0 ELSE MorphScale

\* Mutant: a frame in STATIC clears the mode.
TargetModeClearedInStatic(s, mode) ==
    IF s = "STATIC" THEN "NONE"
    ELSE IF s = "RETURNING" THEN mode
    ELSE IF s \in HelixFamily THEN "HELIX"
    ELSE "GALAXY"

\* modeRef.current after step 1 of AnimatedPoints.useFrame
TargetMode(s, mode) ==
    IF s \in {"STATIC", "RETURNING"} THEN mode
    ELSE IF s \in HelixFamily THEN "HELIX"
    ELSE "GALAXY"

\* Mutant: the clock also advances while paused.
IsRunningOrPaused(s) ==
    s \in {"RUNNING", "HELIX_RUNNING", "PAUSED", "HELIX_PAUSED"}

\* isRunning of AnimatedPoints.useFrame
IsRunning(s) == s \in {"RUNNING", "HELIX_RUNNING"}

\* What a position computation reads: morph, time and (modeRef === 'HELIX').
Inputs(morph, time, mode) ==
    [morph |-> morph, time |-> time, helix |-> (mode = "HELIX")]

\* One rendered frame of the He Tu scene with clock delta d.  The callbacks
\* run in the order in which they subscribed; useFrame subscribes in a layout
\* effect and a child's effects run before its parent's, so the two PointLine
\* callbacks (children of AnimatedPoints) run first, on the refs as the
\* previous frame left them, and AnimatedPoints' callback runs after them.
HeTuFrame(d) ==
    /\ viewMode = "HETU"
    /\ IsRunning(animState) => timeRef + d * GLOBAL_SPEED <= MaxTime
    \* PointLine.useFrame, twice
    /\ lineInputs' = [l \in PointLines |-> Inputs(morphRef, timeRef, modeRef)]
    \* AnimatedPoints.useFrame
    /\ modeRef' = TargetMode(animState, modeRef)
    /\ LET r == Damp(morphRef, morphVel, TargetMorph(animState),
                     SmoothTimeHeTu, d)
       IN  /\ morphRef' = r.value
           /\ morphVel' = r.velocity
    /\ timeRef' = IF IsRunning(animState)
                    THEN timeRef + d * GLOBAL_SPEED ELSE timeRef
    /\ dotInputs' = Inputs(morphRef', timeRef', modeRef')
    /\ UNCHANGED <<appVars, loShuRefs, call>>

(* ------------------------------------------------------------------ *)
(* LoShuScene.tsx: SceneContent's frame callback                       *)
(* ------------------------------------------------------------------ *)

\* Mutant: only SPHERE blends toward the sphere.
LoShuTargetSphereOnly(m) == IF m = "SPHERE" THEN MorphScale ELSE 0

\* target of SceneContent's useFrame
LoShuTarget(m) == IF m \in {"SPHERE", "PROJECTION"} THEN MorphScale ELSE 0

\* The same as a function of the props the callback's closure holds.
SceneContentTarget(morphState, isRunning, isSphereRotating) ==
    LoShuTarget(morphState)

LoShuFrame(d) ==
    /\ viewMode = "LOSHU"
    /\ LET r == Damp(morphVal, morphValVel, LoShuTarget(lsMorph),
                     SmoothTimeLoShu, d)
       IN  /\ morphVal' = r.value
           /\ morphValVel' = r.velocity
    /\ UNCHANGED <<appVars, heTuRefs, call>>

(* ------------------------------------------------------------------ *)
(* constants.ts: strings                                               *)
(* ------------------------------------------------------------------ *)

\* A string is the sequence of its characters.  The characters of the point
\* identifiers, in the order in which localeCompare ranks them: the hyphen
\* before the digits, the digits before the letters.
Alphabet ==
    <<"-", "0", "1", "2", "3", "4", "5", "6", "7", "8", "9",
      "a", "b", "c", "d", "e", "f", "g", "h", "i", "j", "k", "l", "m",
      "n", "o", "p", "q", "r", "s", "t", "u", "v", "w", "x", "y", "z">>

Rank(c) == CHOOSE i \in 1..Len(Alphabet) : Alphabet[i] = c

\* a.localeCompare(b): negative, zero or positive.
RECURSIVE LocaleCompare(_, _)
LocaleCompare(a, b) ==
    IF a = << >> /\ b = << >> THEN 0
    ELSE IF a = << >> THEN -1
    ELSE IF b = << >> THEN 1
    ELSE IF Rank(Head(a)) < Rank(Head(b)) THEN -1
    ELSE IF Rank(Head(a)) > Rank(Head(b)) THEN 1
    ELSE LocaleCompare(Tail(a), Tail(b))

\* `${n}` for a number 0..99.
Decimal(n) ==
    IF n < 10 THEN <<Alphabet[n + 2]>>
    ELSE <<Alphabet[(n \div 10) + 2], Alphabet[(n % 10) + 2]>>

\* `${prefix}-${n}-${i}`
IdOf(prefix, n, i) == prefix \o <<"-">> \o Decimal(n) \o <<"-">> \o Decimal(i)

(* ------------------------------------------------------------------ *)
(* constants.ts: the He Tu catalog                                     *)
(* Lengths are in thousandths of a scene unit.                         *)
(* ------------------------------------------------------------------ *)

L == 20000

Z_HEAVEN == -(L \div 2)

Z_EARTH == L \div 2

Z_CENTER == 0

SPACING == 1200

EDGE_MARGIN == 2000

TOP_Y == (L \div 2) - EDGE_MARGIN

BOTTOM_Y == -((L \div 2) - EDGE_MARGIN)

LEFT_X == -((L \div 2) - EDGE_MARGIN)

RIGHT_X == (L \div 2) - EDGE_MARGIN

Polarity == {"YANG", "YIN"}

\* Mutant: every point is created YANG.
createPointAllYang(id, x, y, z, polarity, group, numberValue) ==
    [id |-> id, x |-> x, y |-> y, z |-> z, polarity |-> "YANG",
     group |-> group, numberValue |-> numberValue]

createPoint(id, x, y, z, polarity, group, numberValue) ==
    [id |-> id, x |-> x, y |-> y, z |-> z, polarity |-> polarity,
     group |-> group, numberValue |-> numberValue]

\* (i - k/2) * SPACING for the loop index i
Offset(i, twiceK) == ((2 * i - twiceK) * SPACING) \div 2

Heaven == <<"h", "e", "a", "v", "e", "n">>

Earth == <<"e", "a", "r", "t", "h">>

Center == <<"c", "e", "n", "t", "e", "r">>

\* 'center-5-mid', '-top', '-btm', '-lft', '-rgt'
CenterId(suffix) == Center \o <<"-", "5", "-">> \o suffix

\* `center-10-top-${i}`, `center-10-btm-${i}`
CenterRowId(row, i) ==
    Center \o <<"-", "1", "0", "-">> \o row \o <<"-">> \o Decimal(i)

CENTER_ROW_Y == 3 * SPACING

\* The loops of generateHeTuPoints, in the order of their pushes; the loop
\* index i of the code is j - 1.
generateHeTuPoints ==
       [j \in 1..7 |-> createPoint(IdOf(Heaven, 7, j - 1), Offset(j - 1, 6),
                                   TOP_Y, Z_HEAVEN, "YANG", "south", 7)]
    \o <<createPoint(IdOf(Heaven, 1, 0), 0, BOTTOM_Y, Z_HEAVEN,
                     "YANG", "north", 1)>>
    \o [j \in 1..9 |-> createPoint(IdOf(Heaven, 9, j - 1), RIGHT_X,
                                   Offset(j - 1, 8), Z_HEAVEN,
                                   "YANG", "west", 9)]
    \o [j \in 1..3 |-> createPoint(IdOf(Heaven, 3, j - 1), LEFT_X,
                                   Offset(j - 1, 2), Z_HEAVEN,
                                   "YANG", "east", 3)]
    \o [j \in 1..2 |-> createPoint(IdOf(Earth, 2, j - 1), Offset(j - 1, 1),
                                   TOP_Y, Z_EARTH, "YIN", "south", 2)]
    \o [j \in 1..6 |-> createPoint(IdOf(Earth, 6, j - 1), Offset(j - 1, 5),
                                   BOTTOM_Y, Z_EARTH, "YIN", "north", 6)]
    \o [j \in 1..8 |-> createPoint(IdOf(Earth, 8, j - 1), LEFT_X,
                                   Offset(j - 1, 7), Z_EARTH,
                                   "YIN", "east", 8)]
    \o [j \in 1..4 |-> createPoint(IdOf(Earth, 4, j - 1), RIGHT_X,
                                   Offset(j - 1, 3), Z_EARTH,
                                   "YIN", "west", 4)]
    \o <<createPoint(CenterId(<<"m", "i", "d">>), 0, 0, Z_CENTER,
                     "YANG", "center", 5),
         createPoint(CenterId(<<"t", "o", "p">>), 0, SPACING, Z_CENTER,
                     "YANG", "center", 5),
         createPoint(CenterId(<<"b", "t", "m">>), 0, -SPACING, Z_CENTER,
                     "YANG", "center", 5),
         createPoint(CenterId(<<"l", "f", "t">>), -SPACING, 0, Z_CENTER,
                     "YANG", "center", 5),
         createPoint(CenterId(<<"r", "g", "t">>), SPACING, 0, Z_CENTER,
                     "YANG", "center", 5)>>
    \o [j \in 1..5 |-> createPoint(CenterRowId(<<"t", "o", "p">>, j - 1),
                                   Offset(j - 1, 4), CENTER_ROW_Y, Z_CENTER,
                                   "YIN", "center", 10)]
    \o [j \in 1..5 |-> createPoint(CenterRowId(<<"b", "t", "m">>, j - 1),
                                   Offset(j - 1, 4), -CENTER_ROW_Y, Z_CENTER,
                                   "YIN", "center", 10)]

CUBE_SIZE == L

(* ------------------------------------------------------------------ *)
(* constants.ts: sortHeTuPoints                                        *)
(* ------------------------------------------------------------------ *)

\* Mutant: no group is sorted in descending order.
descendingGroupsNone == {}

descendingGroups == {4, 6, 9}

\* sequence.includes(v)
Includes(sequence, v) == \E k \in 1..Len(sequence) : sequence[k] = v

\* sequence.indexOf(v): the first position, counted from 0, or -1.
IndexOf(sequence, v) ==
    IF Includes(sequence, v)
    THEN (CHOOSE k \in 1..Len(sequence) :
              /\ sequence[k] = v
              /\ \A m \in 1..(k - 1) : sequence[m] # v) - 1
    ELSE -1

\* Mutant: the comparator ranks its first argument behind its second,
\* whatever they are.
CompareAlwaysBehind(a, b, sequence) == 1

\* The comparator handed to filtered.sort.
Compare(a, b, sequence) ==
    LET idxA == IndexOf(sequence, a.numberValue)
        idxB == IndexOf(sequence, b.numberValue)
    IN  IF idxA # idxB THEN idxA - idxB
        ELSE IF a.numberValue \in descendingGroups
             THEN LocaleCompare(b.id, a.id)
             ELSE LocaleCompare(a.id, b.id)

\* Array.prototype.sort is stable: p goes behind every element that does not
\* compare greater than it.
RECURSIVE InsertSorted(_, _, _)
InsertSorted(sorted, p, sequence) ==
    IF sorted = << >> THEN <<p>>
    ELSE IF Compare(Head(sorted), p, sequence) <= 0
         THEN <<Head(sorted)>> \o InsertSorted(Tail(sorted), p, sequence)
         ELSE <<p>> \o sorted

RECURSIVE SortBy(_, _)
SortBy(list, sequence) ==
    IF list = << >> THEN << >>
    ELSE InsertSorted(SortBy(SubSeq(list, 1, Len(list) - 1), sequence),
                      list[Len(list)], sequence)

sortHeTuPoints(points, sequence) ==
    LET filtered == SelectSeq(points,
                              LAMBDA p : Includes(sequence, p.numberValue))
    IN  SortBy(filtered, sequence)

(* ------------------------------------------------------------------ *)
(* Math: fixed-point stand-ins for the Math functions the code calls.  *)
(* Angles are in millionths of a radian, sines and cosines in          *)
(* thousandths.                                                        *)
(* ------------------------------------------------------------------ *)

PI == 3141593

RECURSIVE SqrtBetween(_, _, _)
SqrtBetween(n, lo, hi) ==
    IF hi - lo <= 1 THEN lo
    ELSE LET mid == (lo + hi) \div 2
         IN  IF mid * mid <= n THEN SqrtBetween(n, mid, hi)
             ELSE SqrtBetween(n, lo, mid)

\* Math.sqrt, rounded down.
Sqrt(n) == SqrtBetween(n, 0, 46341)

\* sin on [0, PI] (Bhaskara's rational approximation).
SinHalfTurn(theta) ==
    LET m == theta \div 1000
        pm == PI \div 1000
        p == m * (pm - m)
    IN  (16000 * (p \div 100)) \div ((5 * pm * pm - 4 * p) \div 100)

\* Math.sin
Sin(theta) ==
    LET x == theta % (2 * PI)
    IN  IF x <= PI THEN SinHalfTurn(x) ELSE -SinHalfTurn(x - PI)

\* Math.cos
Cos(theta) == Sin(theta + PI \div 2)

\* atan(n / d) for 0 <= n <= d, d > 0
AtanOctant(n, d) ==
    LET q == (n * 1000) \div d
    IN  q * 785 + (273 * q * (1000 - q)) \div 1000

\* Math.atan2
Atan2(y, x) ==
    LET ax == Abs(x)
        ay == Abs(y)
        base == IF ay <= ax THEN AtanOctant(ay, ax)
                ELSE PI \div 2 - AtanOctant(ax, ay)
    IN  IF x = 0 /\ y = 0 THEN 0
        ELSE IF x >= 0 THEN (IF y >= 0 THEN base ELSE -base)
        ELSE IF y >= 0 THEN PI - base
        ELSE -(PI - base)

(* ------------------------------------------------------------------ *)
(* constants.ts: generateGalaxyMap                                     *)
(* speedFactor is in thousandths of a radian per second.               *)
(* ------------------------------------------------------------------ *)

yangSequenceValues == <<1, 3, 7, 9>>

\* Mutant: the Yin arm leaves out group 8.
yinSequenceValuesShort == <<2, 4, 6>>

yinSequenceValues == <<2, 4, 6, 8>>

\* Record<string, GalaxyPointConfig> from the assignments map[id] = config in
\* the order they are made: a later assignment to an id replaces an earlier.
MapOf(entries) ==
    [id \in {entries[k].id : k \in 1..Len(entries)} |->
        LET last == CHOOSE k \in 1..Len(entries) :
                        /\ entries[k].id = id
                        /\ \A m \in (k + 1)..Len(entries) : entries[m].id # id
        IN  entries[last].config]

\* points.filter(p => p.group === 'center' && p.polarity === polarity)
CenterOf(points, polarity) ==
    SelectSeq(points, LAMBDA p : p.group = "center" /\ p.polarity = polarity)

ringRadius == 2500

\* centerCore.forEach of generateGalaxyMap
GalaxyCore(points) ==
    LET centerCore == CenterOf(points, "YANG")
    IN  [k \in 1..Len(centerCore) |->
            LET p == centerCore[k]
            IN  [id |-> p.id,
                 config |-> [type |-> "CORE",
                             r |-> Sqrt(p.x * p.x + p.y * p.y),
                             thetaStart |-> Atan2(p.y, p.x),
                             speedFactor |-> 0, zAmp |-> 0, zFreq |-> 0]]]

\* earthPoints.forEach of generateGalaxyMap; the index i of the code is k - 1.
GalaxyRing(points) ==
    LET earthPoints == CenterOf(points, "YIN")
    IN  [k \in 1..Len(earthPoints) |->
            [id |-> earthPoints[k].id,
             config |-> [type |-> "RING", r |-> ringRadius,
                         thetaStart |-> ((k - 1) * 2 * PI) \div Len(earthPoints),
                         speedFactor |-> 0, zAmp |-> 0, zFreq |-> 0]]]

SPIRAL_START_R == 5800

SPIRAL_GROWTH_PER_RAD == 2800

DOT_ARC_SPACING == 800

GROUP_ARC_GAP == 1800

\* Mutant: the arm winds inward.
SpiralRadiusInward(phi) ==
    SPIRAL_START_R - ((SPIRAL_GROWTH_PER_RAD \div 100) * phi) \div 10000

\* SPIRAL_START_R + SPIRAL_GROWTH_PER_RAD * currentPhi
SpiralRadius(phi) ==
    SPIRAL_START_R + ((SPIRAL_GROWTH_PER_RAD \div 100) * phi) \div 10000

\* armPoints.forEach of createSpiralArm from the element at position k on
\* (the index i of the code is k - 1), with the accumulators currentPhi and
\* lastNumberVal as the earlier iterations left them.
RECURSIVE SpiralArmFrom(_, _, _, _, _)
SpiralArmFrom(armPoints, k, currentPhi, lastNumberVal, armOffsetAngle) ==
    IF k > Len(armPoints) THEN << >>
    ELSE LET p == armPoints[k]
             r == SpiralRadius(currentPhi)
             gap == IF lastNumberVal # -1
                    THEN (IF p.numberValue # lastNumberVal
                          THEN GROUP_ARC_GAP ELSE DOT_ARC_SPACING)
                    ELSE 0
             phi == IF k - 1 > 0
                    THEN currentPhi + (gap * 1000000) \div r
                    ELSE currentPhi
         IN  <<[id |-> p.id,
                config |-> [type |-> "ARM",
                            r |-> SpiralRadius(phi),
                            thetaStart |-> armOffsetAngle - phi,
                            speedFactor |-> 800,
                            zAmp |-> phi \div 5000,
                            zFreq |-> 1]]>>
             \o SpiralArmFrom(armPoints, k + 1, phi, p.numberValue,
                              armOffsetAngle)

createSpiralArm(points, targetSequence, armOffsetAngle) ==
    SpiralArmFrom(sortHeTuPoints(points, targetSequence), 1, 0, -1,
                  armOffsetAngle)

generateGalaxyMap(points) ==
    MapOf(GalaxyCore(points) \o GalaxyRing(points)
          \o createSpiralArm(points, yangSequenceValues, -(PI \div 2))
          \o createSpiralArm(points, yinSequenceValues, PI \div 2))

(* ------------------------------------------------------------------ *)
(* constants.ts: generateHelixMap                                      *)
(* ------------------------------------------------------------------ *)

HelixCore(points) ==
    LET centerCore == CenterOf(points, "YANG")
    IN  [k \in 1..Len(centerCore) |->
            LET p == centerCore[k]
            IN  [id |-> p.id,
                 config |-> [type |-> "CORE",
                             r |-> Sqrt(p.x * p.x + p.y * p.y),
                             thetaStart |-> Atan2(p.y, p.x),
                             speedFactor |-> 0, zAmp |-> 0, zFreq |-> 0,
                             yOffset |-> 0]]]

HelixRing(points) ==
    LET centerRing == CenterOf(points, "YIN")
    IN  [k \in 1..Len(centerRing) |->
            [id |-> centerRing[k].id,
             config |-> [type |-> "RING", r |-> ringRadius,
                         thetaStart |-> ((k - 1) * 2 * PI) \div Len(centerRing),
                         speedFactor |-> 0, zAmp |-> 0, zFreq |-> 0,
                         yOffset |-> 0]]]

HELIX_R_BOTTOM == 5500

HELIX_R_TOP == 15000

HELIX_DOT_STEP == 800

HELIX_GROUP_GAP == 3500

RAD_PER_UNIT_HEIGHT == 350

\* The height the strand gains at a point, given the group of the point
\* before it (-1: there is none).
HelixStep(p, lastNumberVal) ==
    IF lastNumberVal # -1
    THEN (IF p.numberValue # lastNumberVal
          THEN HELIX_GROUP_GAP ELSE HELIX_DOT_STEP)
    ELSE 0

\* First pass of assignHelixPosition: totalH
RECURSIVE HelixTotalFrom(_, _, _)
HelixTotalFrom(strandPoints, k, tempLastVal) ==
    IF k > Len(strandPoints) THEN 0
    ELSE HelixStep(strandPoints[k], tempLastVal)
         + HelixTotalFrom(strandPoints, k + 1, strandPoints[k].numberValue)

\* Mutant: the strand starts at the pivot layer.
HelixStartAtPivot(totalH) == 0

\* startY = -totalH / 2
HelixStartY(totalH) == -(totalH \div 2)

\* Second pass of assignHelixPosition from the element at position k on.
RECURSIVE HelixStrandFrom(_, _, _, _, _, _, _)
HelixStrandFrom(strandPoints, k, currentH, lastNumberVal, totalH, phaseOffset, speedDir) ==
    IF k > Len(strandPoints) THEN << >>
    ELSE LET p == strandPoints[k]
             h == currentH + HelixStep(p, lastNumberVal)
             currentR ==
                 IF totalH > 0
                 THEN HELIX_R_BOTTOM
                      + ((HELIX_R_TOP - HELIX_R_BOTTOM) * h) \div totalH
                 ELSE HELIX_R_BOTTOM + (HELIX_R_TOP - HELIX_R_BOTTOM) \div 2
         IN  <<[id |-> p.id,
                config |-> [type |-> "ARM",
                            r |-> currentR,
                            thetaStart |-> phaseOffset
                                           + h * RAD_PER_UNIT_HEIGHT,
                            speedFactor |-> speedDir,
                            zAmp |-> 0, zFreq |-> 0,
                            yOffset |-> HelixStartY(totalH) + h]]>>
             \o HelixStrandFrom(strandPoints, k + 1, h, p.numberValue,
                                totalH, phaseOffset, speedDir)

assignHelixPosition(points, sequence, phaseOffset, speedDir) ==
    LET strandPoints == sortHeTuPoints(points, sequence)
        totalH == HelixTotalFrom(strandPoints, 1, -1)
    IN  HelixStrandFrom(strandPoints, 1, 0, -1, totalH, phaseOffset, speedDir)

generateHelixMap(points) ==
    MapOf(HelixCore(points) \o HelixRing(points)
          \o assignHelixPosition(points, <<1, 3, 7, 9>>, 0, -1000)
          \o assignHelixPosition(points, <<2, 4, 6, 8>>, PI, -1000))

(* ------------------------------------------------------------------ *)
(* HeTuScene.tsx: positions                                            *)
(* A position is <<x, y, z>>; time is in ticks of 1/30 s as timeRef.   *)
(* ------------------------------------------------------------------ *)

SPIN_SIGN == -1

\* SPIN_SIGN * speedFactor * time, as an angle
Spin(speedFactor, time) == Trunc(SPIN_SIGN * speedFactor * time * 100, 3)

\* r * Math.cos(theta), r * Math.sin(theta)
Polar(r, trig) == Trunc(r * trig, 1000)

getTargetPosition(gConfig, time) ==
    LET thetaNow == gConfig.thetaStart + Spin(gConfig.speedFactor, time)
    IN  IF "yOffset" \in DOMAIN gConfig
        THEN <<Polar(gConfig.r, Cos(thetaNow)),
               gConfig.yOffset,
               Polar(gConfig.r, Sin(thetaNow))>>
        ELSE IF gConfig.type \in {"CORE", "RING"}
        THEN <<Polar(gConfig.r, Cos(gConfig.thetaStart)),
               Polar(gConfig.r, Sin(gConfig.thetaStart)),
               0>>
        ELSE <<Polar(gConfig.r, Cos(thetaNow)),
               Polar(gConfig.r, Sin(thetaNow)),
               Polar(gConfig.zAmp, Sin(thetaNow * gConfig.zFreq))>>

\* Mutant: the blend runs from the target to the cube.
MixReversed(c, t, morph) == t + Trunc((c - t) * morph, MorphScale)

\* c + (t - c) * morph
Mix(c, t, morph) == c + Trunc((t - c) * morph, MorphScale)

MixVec(c, t, morph) == [k \in 1..3 |-> Mix(c[k], t[k], morph)]

\* The memoised catalog and maps of AnimatedPoints.
points == generateHeTuPoints

galaxyMap == generateGalaxyMap(points)

helixMap == generateHelixMap(points)

\* Target position of a dot in AnimatedPoints.useFrame
DotTarget(pt, mode, time) ==
    IF mode = "HELIX" THEN getTargetPosition(helixMap[pt.id], time)
    ELSE getTargetPosition(galaxyMap[pt.id], time)

\* mesh.position.set(...) of AnimatedPoints.useFrame for the point pt
DotPosition(pt, mode, time, morph) ==
    MixVec(<<pt.x, pt.y, pt.z>>, DotTarget(pt, mode, time), morph)

SEGMENTS_PER_LINK == 16

\* The sequence prop of the two PointLine instances.
LineSequence(line) ==
    IF line = "yang" THEN <<1, 3, 7, 9>> ELSE <<2, 4, 6, 8>>

\* Mutant: the line takes the points in catalog order.
sortedPointsUnsorted ==
    [line \in PointLines |->
        SelectSeq(points,
                  LAMBDA p : Includes(LineSequence(line), p.numberValue))]

\* sortedPoints of PointLine, for each of the two instances
sortedPoints ==
    [line \in PointLines |-> sortHeTuPoints(points, LineSequence(line))]

totalVertices ==
    [line \in PointLines |->
        (Len(sortedPoints[line]) - 1) * SEGMENTS_PER_LINK + 1]

\* vertexMap of PointLine; t is kept as its numerator j of j / SEGMENTS_PER_LINK.
vertexMap ==
    [line \in PointLines |->
        LET sorted == sortedPoints[line]
        IN  [v \in 1..totalVertices[line] |->
                IF v = totalVertices[line]
                THEN [pA |-> sorted[Len(sorted)], pB |-> sorted[Len(sorted)],
                      t |-> 0]
                ELSE [pA |-> sorted[((v - 1) \div SEGMENTS_PER_LINK) + 1],
                      pB |-> sorted[((v - 1) \div SEGMENTS_PER_LINK) + 2],
                      t |-> (v - 1) % SEGMENTS_PER_LINK]]]

\* a + (b - a) * t
Lerp(a, b, t) == a + Trunc((b - a) * t, SEGMENTS_PER_LINK)

\* Cube Pos of a line vertex
LineCube(vertex) ==
    <<Lerp(vertex.pA.x, vertex.pB.x, vertex.t),
      Lerp(vertex.pA.y, vertex.pB.y, vertex.t),
      Lerp(vertex.pA.z, vertex.pB.z, vertex.t)>>

\* confA.yOffset ?? 0
YOffsetOrZero(conf) == IF "yOffset" \in DOMAIN conf THEN conf.yOffset ELSE 0

\* Target Pos of a line vertex
LineTarget(vertex, isHelix, time) ==
    IF isHelix
    THEN LET confA == helixMap[vertex.pA.id]
             confB == helixMap[vertex.pB.id]
             r == Lerp(confA.r, confB.r, vertex.t)
             y == Lerp(YOffsetOrZero(confA), YOffsetOrZero(confB), vertex.t)
             theta == Lerp(confA.thetaStart, confB.thetaStart, vertex.t)
             thetaNow == theta + Spin(confA.speedFactor, time)
         IN  <<Polar(r, Cos(thetaNow)), y, Polar(r, Sin(thetaNow))>>
    ELSE LET vA == getTargetPosition(galaxyMap[vertex.pA.id], time)
             vB == getTargetPosition(galaxyMap[vertex.pB.id], time)
         IN  [k \in 1..3 |-> Lerp(vA[k], vB[k], vertex.t)]

\* One vertex of flatPositions in PointLine.useFrame
LineVertexPosition(vertex, isHelix, time, morph) ==
    MixVec(LineCube(vertex), LineTarget(vertex, isHelix, time), morph)

(* ------------------------------------------------------------------ *)
(* three.js vectors and quaternions, in fixed point.  A unit vector    *)
(* and a quaternion have components in ten-thousandths.                *)
(* ------------------------------------------------------------------ *)

Origin == <<0, 0, 0>>

Dot3(a, b) == a[1] * b[1] + a[2] * b[2] + a[3] * b[3]

\* Vector3.lengthSq
LengthSq(v) == Dot3(v, v)

\* Vector3.normalize: divideScalar(length() || 1)
Normalize(v) ==
    LET len == Sqrt(LengthSq(v))
    IN  IF len = 0 THEN Origin
        ELSE <<Trunc(v[1] * 10000, len), Trunc(v[2] * 10000, len),
               Trunc(v[3] * 10000, len)>>

\* unit vector . multiplyScalar(length)
Scaled(unit, length) ==
    <<Trunc(unit[1] * length, 10000), Trunc(unit[2] * length, 10000),
      Trunc(unit[3] * length, 10000)>>

\* Quaternion.normalize; a quaternion is <<x, y, z, w>>.
NormalizeQuat(q) ==
    LET len == Sqrt(q[1] * q[1] + q[2] * q[2] + q[3] * q[3] + q[4] * q[4])
    IN  IF len = 0 THEN <<0, 0, 0, 10000>>
        ELSE [k \in 1..4 |-> Trunc(q[k] * 10000, len)]

\* new THREE.Quaternion()
IdentityQuat == <<0, 0, 0, 10000>>

\* Quaternion.setFromUnitVectors(vFrom, vTo)
setFromUnitVectors(vFrom, vTo) ==
    LET r == Trunc(Dot3(vFrom, vTo), 10000) + 10000
    IN  IF r <= 0
        THEN IF Abs(vFrom[1]) > Abs(vFrom[3])
             THEN NormalizeQuat(<<-vFrom[2], vFrom[1], 0, 0>>)
             ELSE NormalizeQuat(<<0, -vFrom[3], vFrom[2], 0>>)
        ELSE NormalizeQuat(
                <<Trunc(vFrom[2] * vTo[3] - vFrom[3] * vTo[2], 10000),
                  Trunc(vFrom[3] * vTo[1] - vFrom[1] * vTo[3], 10000),
                  Trunc(vFrom[1] * vTo[2] - vFrom[2] * vTo[1], 10000),
                  r>>)

\* Vector3.applyQuaternion(q)
applyQuaternion(v, q) ==
    LET tx == Trunc(2 * (q[2] * v[3] - q[3] * v[2]), 10000)
        ty == Trunc(2 * (q[3] * v[1] - q[1] * v[3]), 10000)
        tz == Trunc(2 * (q[1] * v[2] - q[2] * v[1]), 10000)
    IN  <<v[1] + Trunc(q[4] * tx + q[2] * tz - q[3] * ty, 10000),
          v[2] + Trunc(q[4] * ty + q[3] * tx - q[1] * tz, 10000),
          v[3] + Trunc(q[4] * tz + q[1] * ty - q[2] * tx, 10000)>>

(* ------------------------------------------------------------------ *)
(* constants.ts: the Luo Shu catalog                                   *)
(* ------------------------------------------------------------------ *)

LOSHU_GRID_SIZE == 12000

SPHERE_RADIUS == 18000

\* The trigram and direction names are written in Latin letters.
TRIGRAMS ==
    <<"kan", "kun", "zhen", "xun", "zhong", "qian", "dui", "gen", "li">>

DIRECTIONS == <<"N", "SW", "E", "SE", "C", "NW", "W", "NE", "S">>

R == SPHERE_RADIUS

\* R * 0.577
D == (R * 577) \div 1000

\* R * 0.707
D_CROSS == (R * 707) \div 1000

LOSHU_ANCHORS ==
    <<  <<0, -R, 0>>,
        <<D, D, D>>,
        <<-D_CROSS, 0, -D_CROSS>>,
        <<-D, D, -D>>,
        <<0, 0, 0>>,
        <<D, -D, D>>,
        <<D_CROSS, 0, D_CROSS>>,
        <<-D, -D, -D>>,
        <<0, R, 0>>  >>

rotate2D(x, y, angleRad) ==
    <<Trunc(x * Cos(angleRad) - y * Sin(angleRad), 1000),
      Trunc(x * Sin(angleRad) + y * Cos(angleRad), 1000)>>

gap == 1300

\* The 2D pattern of the group num, in the order of its pushes.
Offsets(num) ==
    CASE num = 1 -> << <<0, 0>> >>
      [] num = 2 -> << <<-((gap * 10) \div 15), -((gap * 10) \div 15)>>,
                       <<(gap * 10) \div 15, (gap * 10) \div 15>> >>
      [] num = 3 -> << <<0, gap>>, <<0, 0>>, <<0, -gap>> >>
      [] num = 4 -> << <<0, (gap * 12) \div 10>>, <<(gap * 12) \div 10, 0>>,
                       <<0, -((gap * 12) \div 10)>>,
                       <<-((gap * 12) \div 10), 0>> >>
      [] num = 5 -> << <<0, 0>>, <<0, (gap * 6) \div 10>>,
                       <<0, -((gap * 6) \div 10)>>,
                       <<-((gap * 6) \div 10), 0>>,
                       <<(gap * 6) \div 10, 0>> >>
      [] num = 6 ->
            LET w == (gap * 8) \div 10
                h == (gap * 8) \div 10
                raw == << <<-w, h * 2>>, <<w, h * 2>>, <<w, 0>>,
                          <<w, -(h * 2)>>, <<-w, -(h * 2)>>, <<-w, 0>> >>
            IN  [k \in 1..6 |-> rotate2D(raw[k][1], raw[k][2], PI \div 4)]
      [] num = 7 -> [j \in 1..7 |-> <<0, (4 - j) * ((gap * 6) \div 10)>>]
      [] num = 8 ->
            LET w == (gap * 8) \div 10
                h == (gap * 6) \div 10
                raw == << <<-w, h * 3>>, <<w, h * 3>>, <<w, h>>, <<w, -h>>,
                          <<w, -(h * 3)>>, <<-w, -(h * 3)>>, <<-w, -h>>,
                          <<-w, h>> >>
            IN  [k \in 1..8 |-> rotate2D(raw[k][1], raw[k][2], -(PI \div 4))]
      [] num = 9 -> [j \in 1..9 |-> <<(j - 5) * ((gap * 6) \div 10), 0>>]

\* Mutant: the center group is projected onto the sphere like the others.
IsCenterNever(num) == FALSE

\* isCenter of generateLoShuPoints
IsCenter(num) == num = 5

\* The quaternion the group num is rotated by.
GroupQuaternion(num) ==
    IF ~IsCenter(num)
    THEN setFromUnitVectors(<<0, 0, 10000>>, Normalize(LOSHU_ANCHORS[num]))
    ELSE IdentityQuat

\* spherePosVec of the offset off of the group num
SpherePos(num, off) ==
    IF IsCenter(num) THEN <<off[1], off[2], 0>>
    ELSE applyQuaternion(Scaled(Normalize(<<off[1], off[2], R>>), R),
                         GroupQuaternion(num))

\* planePos of the offset off of the group num
PlanePos(num, off) ==
    LET gx == IF num \in {3, 4, 8} THEN -1
              ELSE IF num \in {7, 2, 6} THEN 1 ELSE 0
        gy == IF num \in {9, 4, 2} THEN 1
              ELSE IF num \in {1, 8, 6} THEN -1 ELSE 0
    IN  <<gx * LOSHU_GRID_SIZE + off[1], gy * LOSHU_GRID_SIZE + off[2], 0>>

\* Mutant: every point of a group carries the metadata.
MetadataAlways(i, table, num) == table[num]

\* i === 0 ? table[num] : undefined
Metadata(i, table, num) == IF i = 0 THEN table[num] ELSE "undefined"

\* offsets.forEach of generateLoShuPoints for the group num; the index i of
\* the code is k - 1.
LoShuGroup(num) ==
    [k \in 1..Len(Offsets(num)) |->
        [id |-> IdOf(<<"l", "s">>, num, k - 1),
         numberValue |-> num,
         polarity |-> IF num % 2 # 0 THEN "YANG" ELSE "YIN",
         planePos |-> PlanePos(num, Offsets(num)[k]),
         spherePos |-> SpherePos(num, Offsets(num)[k]),
         trigram |-> Metadata(k - 1, TRIGRAMS, num),
         direction |-> Metadata(k - 1, DIRECTIONS, num)]]

\* numbers.forEach of generateLoShuPoints from the number num on
RECURSIVE LoShuGroupsFrom(_)
LoShuGroupsFrom(num) ==
    IF num > 9 THEN << >> ELSE LoShuGroup(num) \o LoShuGroupsFrom(num + 1)

generateLoShuPoints == LoShuGroupsFrom(1)

(* ------------------------------------------------------------------ *)
(* constants.ts: generateLoShuEnergyPath                               *)
(* radiusScale is in thousandths.                                      *)
(* ------------------------------------------------------------------ *)

\* The default radiusScale, 1.15
DefaultRadiusScale == 1150

\* Math.acos of a cosine in ten-thousandths: the least angle of [lo, hi] whose
\* cosine does not exceed x, hi if there is none below it.
RECURSIVE AcosBetween(_, _, _)
AcosBetween(x, lo, hi) ==
    IF hi - lo <= 1 THEN (IF Cos(lo) * 10 <= x THEN lo ELSE hi)
    ELSE LET mid == (lo + hi) \div 2
         IN  IF Cos(mid) * 10 <= x THEN AcosBetween(x, lo, mid)
             ELSE AcosBetween(x, mid, hi)

Acos(x) == AcosBetween(x, 0, PI)

\* anchor.lengthSq() < 0.1
IsCenterAnchor(anchor) == LengthSq(anchor) < 100000

\* SPHERE_RADIUS * radiusScale
WorkingRadius(radiusScale) == Trunc(SPHERE_RADIUS * radiusScale, 1000)

\* getPos of generateLoShuEnergyPath
getPos(anchor, radiusScale) ==
    IF IsCenterAnchor(anchor) THEN Origin
    ELSE Scaled(Normalize(anchor), WorkingRadius(radiusScale))

\* a.lerp(b, t) with t = j / n
LerpVec(a, b, j, n) == [k \in 1..3 |-> a[k] + Trunc((b[k] - a[k]) * j, n)]

\* Mutant: only a leg that starts at the center is linear.
IsLinearLegFromCenter(startNum, endNum) ==
    IsCenterAnchor(LOSHU_ANCHORS[startNum])

\* isStartCenter || isEndCenter
IsLinearLeg(startNum, endNum) ==
    \/ IsCenterAnchor(LOSHU_ANCHORS[startNum])
    \/ IsCenterAnchor(LOSHU_ANCHORS[endNum])

\* The angle between the directions of a surface leg.
LegTheta(nStart, nEnd) ==
    LET dot == Trunc(Dot3(nStart, nEnd), 10000)
        clamped == IF dot > 10000 THEN 10000
                   ELSE IF dot < -10000 THEN -10000 ELSE dot
    IN  Acos(clamped)

\* Math.abs(theta) < 0.0001
IsSmallAngle(theta) == Abs(theta) < 100

\* The SLERP branch: nStart * w1 + nEnd * w2, before it is normalised.  Where
\* the two directions are opposite, sin(theta) is a rounding residue in the
\* code and zero here: the first sample has w1 = 1 and w2 = 0; at t = 1/2 the
\* two weights are the same number and the sum is the zero vector; elsewhere
\* the sign of w1 - w2, and with it the side of the sphere the sample falls
\* on, depends on rounding and is the input sign.
SlerpSum(nStart, nEnd, theta, j, n, sign) ==
    LET sinTheta == Sin(theta)
    IN  IF sinTheta = 0
        THEN IF j = 0 THEN nStart
             ELSE IF 2 * j = n THEN Origin
             ELSE [k \in 1..3 |-> sign * nStart[k]]
        ELSE LET w1 == Trunc(Sin(Trunc(theta * (n - j), n)) * 10000, sinTheta)
                 w2 == Trunc(Sin(Trunc(theta * j, n)) * 10000, sinTheta)
             IN  [k \in 1..3 |->
                     Trunc(nStart[k] * w1 + nEnd[k] * w2, 10000)]

\* The branch of the sample loop a leg runs through.
LegMethod(startNum, endNum, radiusScale) ==
    IF IsLinearLeg(startNum, endNum) THEN "LINEAR"
    ELSE LET nStart == Normalize(getPos(LOSHU_ANCHORS[startNum], radiusScale))
             nEnd == Normalize(getPos(LOSHU_ANCHORS[endNum], radiusScale))
         IN  IF IsSmallAngle(LegTheta(nStart, nEnd))
             THEN "SMALL_ANGLE" ELSE "SLERP"

\* vec of the SPHERICAL branch, scaled back to the radius
SurfaceSample(vStart, vEnd, radiusScale, j, segmentsPerLeg, sign) ==
    LET nStart == Normalize(vStart)
        nEnd == Normalize(vEnd)
        theta == LegTheta(nStart, nEnd)
    IN  Scaled(Normalize(
            IF IsSmallAngle(theta)
            THEN LerpVec(nStart, nEnd, j, segmentsPerLeg)
            ELSE SlerpSum(nStart, nEnd, theta, j, segmentsPerLeg, sign)),
            WorkingRadius(radiusScale))

\* vec of the iteration j of the leg startNum -> endNum
LegSample(startNum, endNum, radiusScale, j, segmentsPerLeg, sign) ==
    LET vStart == getPos(LOSHU_ANCHORS[startNum], radiusScale)
        vEnd == getPos(LOSHU_ANCHORS[endNum], radiusScale)
    IN  IF IsLinearLeg(startNum, endNum)
        THEN LerpVec(vStart, vEnd, j, segmentsPerLeg)
        ELSE SurfaceSample(vStart, vEnd, radiusScale, j, segmentsPerLeg, sign)

\* The samples pushed by the legs i, i + 1, ... of the sequence (i from 1).
RECURSIVE LegsFrom(_, _, _, _, _)
LegsFrom(sequence, i, radiusScale, segmentsPerLeg, sign) ==
    IF i > Len(sequence) - 1 THEN << >>
    ELSE [s \in 1..segmentsPerLeg |->
             LegSample(sequence[i], sequence[i + 1], radiusScale,
                       s - 1, segmentsPerLeg, sign)]
         \o LegsFrom(sequence, i + 1, radiusScale, segmentsPerLeg, sign)

\* pFinal
FinalPoint(sequence, radiusScale) ==
    getPos(LOSHU_ANCHORS[sequence[Len(sequence)]], radiusScale)

generateLoShuEnergyPath(sequence, radiusScale, segmentsPerLeg, sign) ==
    LegsFrom(sequence, 1, radiusScale, segmentsPerLeg, sign)
    \o <<FinalPoint(sequence, radiusScale)>>

(* ------------------------------------------------------------------ *)
(* Evaluations of the geometry functions                               *)
(* ------------------------------------------------------------------ *)

\* Longest list handed to sortHeTuPoints and longest sequence argument.
MaxSortLen == 3

MaxSequenceLen == 2

\* Longest sequence and largest segmentsPerLeg handed to
\* generateLoShuEnergyPath.
MaxPathLen == 3

MaxSegments == 3

\* All sequences over S of the lengths 0..n
RECURSIVE SeqsUpTo(_, _)
SeqsUpTo(S, n) ==
    IF n = 0 THEN {<< >>}
    ELSE LET shorter == SeqsUpTo(S, n - 1)
         IN  shorter \cup {Append(s, x) : s \in shorter, x \in S}

\* Those that name no element twice
Arrangements(S, n) ==
    {s \in SeqsUpTo(S, n) :
        \A i, j \in 1..Len(s) : i # j => s[i] # s[j]}

\* Groups sortHeTuPoints is tried on: two of the descending ones, one ascending.
SortGroups == {3, 4, 9}

\* Two points of each of these groups.
SortPool ==
    {points[k] : k \in {n \in 1..Len(points) :
                          /\ points[n].numberValue \in SortGroups
                          /\ points[n].id[Len(points[n].id)] \in {"0", "1"}}}

SortLists == Arrangements(SortPool, MaxSortLen)

SortSequences == SeqsUpTo(SortGroups, MaxSequenceLen)

FrameTimes == {0, DeltaShort, DeltaLong, MaxTime}

FrameMorphs == {0, MorphScale \div 2, MorphScale}

FrameModes == {"NONE", "GALAXY", "HELIX"}

\* Anchors the energy path is tried on: the poles 1 and 9, the opposite
\* corners 4 and 6, and the center 5.
PathNumbers == {1, 4, 5, 6, 9}

PathSequences == SeqsUpTo(PathNumbers, MaxPathLen) \ {<< >>}

PathSegments == {1, 2, MaxSegments}

PathScales == {1000, DefaultRadiusScale}

\* Each evaluation starts from the state in which none has been made, so
\* that a behaviour holds one evaluation and its result.

\* useMemo of AnimatedPoints: points, galaxyMap, helixMap
MountAnimatedPoints ==
    /\ call = NoCall
    /\ call' = [fn |-> "AnimatedPoints", args |-> << >>,
                result |-> [points |-> points, galaxyMap |-> galaxyMap,
                            helixMap |-> helixMap]]
    /\ UNCHANGED <<appVars, heTuRefs, loShuRefs>>

\* useMemo of a PointLine: sortedPoints
MountPointLine ==
    /\ call = NoCall
    /\ \E line \in PointLines :
           call' = [fn |-> "PointLine", args |-> <<line>>,
                    result |-> sortedPoints[line]]
    /\ UNCHANGED <<appVars, heTuRefs, loShuRefs>>

\* The body of points.forEach in AnimatedPoints.useFrame for one point
SetDotPosition ==
    /\ call = NoCall
    /\ \E k \in 1..Len(points), mode \in FrameModes,
          time \in FrameTimes, morph \in FrameMorphs :
           call' = [fn |-> "dot", args |-> <<k, mode, time, morph>>,
                    result |-> DotPosition(points[k], mode, time, morph)]
    /\ UNCHANGED <<appVars, heTuRefs, loShuRefs>>

\* The body of the vertex loop in PointLine.useFrame for one vertex
SetLineVertex ==
    /\ call = NoCall
    /\ \E line \in PointLines, mode \in FrameModes,
          time \in FrameTimes, morph \in FrameMorphs :
           \E v \in 1..totalVertices[line] :
               call' = [fn |-> "vertex",
                        args |-> <<line, v, mode, time, morph>>,
                        result |-> LineVertexPosition(vertexMap[line][v],
                                                      mode = "HELIX",
                                                      time, morph)]
    /\ UNCHANGED <<appVars, heTuRefs, loShuRefs>>

CallSortHeTuPoints ==
    /\ call = NoCall
    /\ \E list \in SortLists, sequence \in SortSequences :
           call' = [fn |-> "sortHeTuPoints", args |-> <<list, sequence>>,
                    result |-> sortHeTuPoints(list, sequence)]
    /\ UNCHANGED <<appVars, heTuRefs, loShuRefs>>

\* useMemo of LoShuScene: generateLoShuPoints()
MountLoShuScene ==
    /\ call = NoCall
    /\ call' = [fn |-> "LoShuScene", args |-> << >>,
                result |-> generateLoShuPoints]
    /\ UNCHANGED <<appVars, heTuRefs, loShuRefs>>

\* sign: see SlerpSum
CallGenerateLoShuEnergyPath ==
    /\ call = NoCall
    /\ \E sequence \in PathSequences, radiusScale \in PathScales,
          segmentsPerLeg \in PathSegments, sign \in {-1, 1} :
           call' = [fn |-> "generateLoShuEnergyPath",
                    args |-> <<sequence, radiusScale, segmentsPerLeg>>,
                    result |-> generateLoShuEnergyPath(
                                   sequence, radiusScale, segmentsPerLeg, sign)]
    /\ UNCHANGED <<appVars, heTuRefs, loShuRefs>>

\* Step 1 of AnimatedPoints.useFrame for a given animState
EvalTargetMorph ==
    /\ call = NoCall
    /\ \E s \in AnimationState :
           call' = [fn |-> "targetMorph", args |-> <<s>>,
                    result |-> TargetMorph(s)]
    /\ UNCHANGED <<appVars, heTuRefs, loShuRefs>>

\* The target of SceneContent's useFrame for given props
EvalSceneContentTarget ==
    /\ call = NoCall
    /\ \E m \in LoShuMorphState, isRunning \in BOOLEAN,
          isSphereRotating \in BOOLEAN :
           call' = [fn |-> "target",
                    args |-> <<m, isRunning, isSphereRotating>>,
                    result |-> SceneContentTarget(m, isRunning,
                                                  isSphereRotating)]
    /\ UNCHANGED <<appVars, heTuRefs, loShuRefs>>

(* ------------------------------------------------------------------ *)
(* Specifications                                                      *)
(* ------------------------------------------------------------------ *)

Init ==
    /\ viewMode = "HETU"
    /\ animState = "STATIC"
    /\ lastMode = "GALAXY"
    /\ timers = << >>
    /\ lsMorph = "PLANE"
    /\ alignTrigger = 0
    /\ autoRotate = FALSE
    /\ lsRunning = FALSE
    /\ lsSphereRotating = FALSE
    /\ lsLayers = DotsOnly
    /\ timeRef = 0
    /\ morphRef = 0
    /\ morphVel = 0
    /\ modeRef = "NONE"
    /\ dotInputs = NotDrawn
    /\ lineInputs = [l \in PointLines |-> NotDrawn]
    /\ morphVal = 0
    /\ morphValVel = 0
    /\ call = NoCall

Next ==
    \/ GalaxyClick
    \/ HelixClick
    \/ Reset
    \/ TimerFire
    \/ \E v \in ViewMode : SelectView(v)

Spec == Init /\ [][Next]_vars

\* A pending setTimeout callback is run by the browser's event loop once its
\* delay has passed, whatever else is clicked meanwhile.
SpecLive == Init /\ [][Next]_vars /\ WF_vars(TimerFire)

\* The application together with the render loop of the He Tu scene.
NextHeTuFrame ==
    \/ GalaxyClickUpTo(MaxFrameTimers)
    \/ HelixClickUpTo(MaxFrameTimers)
    \/ ResetUpTo(MaxFrameTimers)
    \/ TimerFire
    \/ \E v \in ViewMode : SelectView(v)
    \/ \E d \in Deltas : HeTuFrame(d)

SpecHeTuFrame == Init /\ [][NextHeTuFrame]_vars

\* The application together with the render loops of both scenes.
NextFrame ==
    \/ GalaxyClickUpTo(MaxFrameTimers)
    \/ HelixClickUpTo(MaxFrameTimers)
    \/ ResetUpTo(MaxFrameTimers)
    \/ TimerFire
    \/ \E v \in ViewMode : SelectView(v)
    \/ LoShuMorphToggle
    \/ \E d \in Deltas : HeTuFrame(d)
    \/ \E d \in Deltas : LoShuFrame(d)

SpecFrame == Init /\ [][NextFrame]_vars

\* The geometry functions of constants.ts and the position computations of
\* HeTuScene.tsx, each evaluated on the catalog or on inputs of the sets above.
NextGeometry ==
    \/ MountAnimatedPoints
    \/ MountPointLine
    \/ SetDotPosition
    \/ SetLineVertex
    \/ CallSortHeTuPoints
    \/ MountLoShuScene
    \/ CallGenerateLoShuEnergyPath
    \/ EvalTargetMorph
    \/ EvalSceneContentTarget

SpecGeometry == Init /\ [][NextGeometry]_vars

\* The application alone: every control of both diagrams and the timers.
NextApp ==
    \/ GalaxyClick
    \/ HelixClick
    \/ Reset
    \/ TimerFire
    \/ \E v \in ViewMode : SelectView(v)
    \/ ToggleAutoRotate
    \/ Align
    \/ LoShuMorphToggle
    \/ LoShuFlowToggle
    \/ LoShuRotateToggle
    \/ \E key \in LayerKeys : ToggleLayer(key)
    \/ LoShuReset

SpecApp == Init /\ [][NextApp]_vars

(* ------------------------------------------------------------------ *)
(* The animation state machine (App.tsx)                               *)
(* ------------------------------------------------------------------ *)

\* A step in which the oldest pending timer fires.
IsTimerStep == timers # << >> /\ timers' = Tail(timers)

\* While animState is time-boxed, the timer scheduled by the most recent entry
\* into that state is the youngest pending one: every click that changes
\* animState away from a time-boxed state schedules a younger timer, and the
\* clicks that schedule nothing leave a time-boxed state unchanged.  A timer
\* that fires while a younger one is pending was therefore scheduled by an
\* earlier, superseded entry.
IsStaleTimerStep == IsTimerStep /\ Len(timers) > 1

\* C1: the timer of a superseded time-boxed transition has no effect on
\* animState: a time-boxed state is left by timer only when the timer of the
\* most recent entry into it fires.
C1_StaleTimerHasNoEffect ==
    [][IsStaleTimerStep => animState' = animState]_vars

\* C2: from STATIC a galaxy click sets MORPHING at once, a timer leaves
\* MORPHING only to RUNNING, and under fair timer firing MORPHING is always
\* left; likewise STATIC -> HELIX_MORPHING -> HELIX_RUNNING for a helix click.
C2_StaticToRunning ==
    /\ [][/\ (GalaxyClick /\ animState = "STATIC") =>
               (animState' = "MORPHING" /\ timers' = Append(timers, "MORPHING"))
          /\ (HelixClick /\ animState = "STATIC") =>
               (animState' = "HELIX_MORPHING"
                /\ timers' = Append(timers, "HELIX_MORPHING"))
          /\ (TimerFire /\ animState = "MORPHING") =>
               animState' \in {"MORPHING", "RUNNING"}
          /\ (TimerFire /\ animState = "HELIX_MORPHING") =>
               animState' \in {"HELIX_MORPHING", "HELIX_RUNNING"}]_vars
    /\ (animState = "MORPHING") ~> (animState # "MORPHING")
    /\ (animState = "HELIX_MORPHING") ~> (animState # "HELIX_MORPHING")

\* C2 witness: RUNNING was reached from STATIC by one galaxy click and the
\* firing of its timer.
C2_Witness ==
    animState = "RUNNING" /\ timers = << >> /\ lastMode = "GALAXY"

\* C3: a reset in any of the six running/paused/morphing states sets
\* RETURNING at once and schedules the return timer; a timer leaves RETURNING
\* only to STATIC, and under fair timer firing RETURNING is always left; a
\* reset in STATIC changes nothing and schedules no timer.
C3_ResetReturns ==
    /\ [][/\ (Reset /\ animState \in GalaxyFamily \cup HelixFamily) =>
               (animState' = "RETURNING"
                /\ timers' = Append(timers, "RETURNING"))
          /\ (TimerFire /\ animState = "RETURNING") =>
               animState' \in {"RETURNING", "STATIC"}
          /\ (Reset /\ animState = "STATIC") => UNCHANGED vars]_vars
    /\ (animState = "RETURNING") ~> (animState # "RETURNING")

\* C3 witness: STATIC was reached again by a reset and the firing of its timer.
C3_Witness ==
    animState = "STATIC" /\ timers = << >> /\ lastMode = "HELIX"

\* The transition table as the specification words it.
ClaimedTable ==
    {<<"STATIC", "MORPHING">>, <<"MORPHING", "RUNNING">>,
     <<"RUNNING", "PAUSED">>, <<"PAUSED", "RUNNING">>,
     <<"STATIC", "HELIX_MORPHING">>, <<"HELIX_MORPHING", "HELIX_RUNNING">>,
     <<"HELIX_RUNNING", "HELIX_PAUSED">>, <<"HELIX_PAUSED", "HELIX_RUNNING">>,
     <<"RETURNING", "STATIC">>}
    \cup ((GalaxyFamily \cup HelixFamily) \X {"RETURNING"})
    \cup (GalaxyFamily \X {"HELIX_MORPHING"})
    \cup (HelixFamily \X {"MORPHING"})

\* The table the handlers implement: a galaxy or helix click is also accepted
\* while RETURNING.
AmendedTable ==
    ClaimedTable \cup {<<"RETURNING", "MORPHING">>,
                       <<"RETURNING", "HELIX_MORPHING">>}

\* C4 as claimed: animState starts STATIC and changes only along the
\* specification's table; RETURNING is left only to STATIC.
C4_ClaimedTableOnly ==
    /\ animState = "STATIC"
    /\ [][animState' # animState =>
             <<animState, animState'>> \in ClaimedTable]_vars

\* C4 amended: animState starts STATIC and changes only along the table
\* extended by RETURNING -> MORPHING and RETURNING -> HELIX_MORPHING; STATIC
\* is entered only from RETURNING.
C4_AmendedTableOnly ==
    /\ animState = "STATIC"
    /\ [][/\ animState' # animState =>
               <<animState, animState'>> \in AmendedTable
          /\ (animState' = "STATIC" /\ animState # "STATIC") =>
               animState = "RETURNING"]_vars

\* C4 witness: MORPHING entered by a galaxy click while RETURNING (the return
\* timer is still pending, followed by the click's own timer).
C4_Witness ==
    animState = "MORPHING" /\ timers = <<"RETURNING", "MORPHING">>

\* C5: a helix click in the galaxy family sets HELIX_MORPHING directly and a
\* galaxy click in the helix family sets MORPHING directly, never RETURNING or
\* STATIC; the morphing state so entered is left by a timer only to its own
\* family's running state, and fair timer firing makes it be left.
C5_CrossOver ==
    /\ [][/\ (HelixClick /\ animState \in GalaxyFamily) =>
               (animState' = "HELIX_MORPHING"
                /\ timers' = Append(timers, "HELIX_MORPHING"))
          /\ (GalaxyClick /\ animState \in HelixFamily) =>
               (animState' = "MORPHING"
                /\ timers' = Append(timers, "MORPHING"))
          /\ (IsTimerStep /\ animState \in {"MORPHING", "HELIX_MORPHING"}) =>
               animState' \in {animState, Settled(animState)} \ {"STATIC"}]_vars
    /\ \A m \in {"MORPHING", "HELIX_MORPHING"} :
          (animState = m) ~> (animState # m)

\* C5 witness: HELIX_RUNNING settled after a cross-over from the galaxy
\* family (the galaxy timer fired first, the helix timer last).
C5_Witness ==
    animState = "HELIX_RUNNING" /\ timers = << >> /\ lastMode = "HELIX"

\* C6: pause and resume happen in the click's own step and schedule no timer;
\* a galaxy click in MORPHING and a helix click in HELIX_MORPHING change
\* neither animState nor the pending timers.
C6_PauseResumeInstant ==
    [][/\ (GalaxyClick /\ animState = "RUNNING") =>
           (animState' = "PAUSED" /\ timers' = timers)
       /\ (GalaxyClick /\ animState = "PAUSED") =>
           (animState' = "RUNNING" /\ timers' = timers)
       /\ (HelixClick /\ animState = "HELIX_RUNNING") =>
           (animState' = "HELIX_PAUSED" /\ timers' = timers)
       /\ (HelixClick /\ animState = "HELIX_PAUSED") =>
           (animState' = "HELIX_RUNNING" /\ timers' = timers)
       /\ (GalaxyClick /\ animState = "MORPHING") =>
           (animState' = "MORPHING" /\ timers' = timers)
       /\ (HelixClick /\ animState = "HELIX_MORPHING") =>
           (animState' = "HELIX_MORPHING" /\ timers' = timers)]_vars

\* C6 witness: the galaxy animation paused by a click, no timer pending.
C6_Witness ==
    animState = "PAUSED" /\ timers = << >>

(* ------------------------------------------------------------------ *)
(* The frame callbacks (HeTuScene.tsx, LoShuScene.tsx)                 *)
(* ------------------------------------------------------------------ *)

\* C7: a He Tu frame adds its delta to timeRef exactly when animState is
\* RUNNING or HELIX_RUNNING and leaves timeRef unchanged in every other
\* state; nothing but such a frame (or a remount of the scene) changes it.
C7_TimeAdvancesOnlyWhenRunning ==
    [][/\ \A d \in Deltas :
             HeTuFrame(d) =>
               timeRef' = timeRef
                   + (IF animState \in {"RUNNING", "HELIX_RUNNING"}
                        THEN d ELSE 0)
       /\ (timeRef' # timeRef /\ viewMode' = viewMode) =>
             (/\ animState \in {"RUNNING", "HELIX_RUNNING"}
              /\ timeRef' - timeRef \in Deltas)]_vars

\* C7 witness: time has advanced, the helix is paused, and the last frame
\* left the elapsed time as it found it.
C7_Witness ==
    /\ animState = "HELIX_PAUSED"
    /\ timeRef > 0
    /\ dotInputs # NotDrawn
    /\ dotInputs.time = timeRef
    /\ lineInputs["yang"].time = timeRef

\* C8: within a frame the dot positions and the vertices of both lines are
\* computed from the same blend factor, elapsed time and mode.
C8_FrameConsistent ==
    dotInputs # NotDrawn =>
        \A l \in PointLines : lineInputs[l] = dotInputs

\* C9: between two consecutive frames the animated coordinate set of the dots
\* (galaxy or helix) is not exchanged for the other one while the dots are
\* blended away from their cube positions.
C9_NoSnap ==
    [][(/\ dotInputs # NotDrawn
        /\ dotInputs' # NotDrawn
        /\ dotInputs'.helix # dotInputs.helix) =>
           (dotInputs.morph = 0 \/ dotInputs'.morph = 0)]_vars

C11_BlendIdentity ==
    /\ call.fn = "dot" =>
           LET pt == points[call.args[1]]
               mode == call.args[2]
               time == call.args[3]
               morph == call.args[4]
               conf == IF mode = "HELIX" THEN helixMap[pt.id]
                       ELSE galaxyMap[pt.id]
           IN  /\ morph = 0 => call.result = <<pt.x, pt.y, pt.z>>
               /\ morph = MorphScale =>
                      call.result = getTargetPosition(conf, time)
    /\ call.fn = "vertex" =>
           LET vertex == vertexMap[call.args[1]][call.args[2]]
               mode == call.args[3]
               time == call.args[4]
               morph == call.args[5]
           IN  /\ morph = 0 => call.result = LineCube(vertex)
               /\ morph = MorphScale =>
                      call.result = LineTarget(vertex, mode = "HELIX", time)

\* A vertex inside a link of the helix line, fully blended at a time after the
\* start, away from its static position.
C11_Witness ==
    /\ call.fn = "vertex"
    /\ call.args[3] = "HELIX"
    /\ call.args[4] > 0
    /\ call.args[5] = MorphScale
    /\ vertexMap[call.args[1]][call.args[2]].t > 0
    /\ call.result # LineCube(vertexMap[call.args[1]][call.args[2]])

(* ------------------------------------------------------------------ *)
(* The catalogs (constants.ts)                                         *)
(* ------------------------------------------------------------------ *)

\* The elements of a sequence
Range(s) == {s[k] : k \in 1..Len(s)}

\* The points of the group n
GroupOf(pts, n) == {p \in Range(pts) : p.numberValue = n}

DistinctIds(pts) ==
    \A i, j \in 1..Len(pts) : i # j => pts[i].id # pts[j].id

\* The group n is exactly the points labelled group on the layer z.
Holds(pts, n, z, group) ==
    \A p \in Range(pts) :
        p.numberValue = n <=> (p.z = z /\ p.group = group)

\* C12: generateHeTuPoints returns 55 points with distinct ids, N points in
\* the group N for N = 1..10; heaven face: north 1, south 7, west 9, east 3;
\* earth face: south 2, north 6, east 8, west 4; center layer: the group 5 as
\* a 5-point cross and the group 10 as two rows of 5; odd groups YANG, even
\* groups YIN.
C12_HeTuCatalog ==
    call.fn = "AnimatedPoints" =>
        LET pts == call.result.points
        IN  /\ Len(pts) = 55
            /\ DistinctIds(pts)
            /\ \A n \in 1..10 : Cardinality(GroupOf(pts, n)) = n
            /\ \A p \in Range(pts) : p.numberValue \in 1..10
            /\ Holds(pts, 1, -(L \div 2), "north")
            /\ Holds(pts, 7, -(L \div 2), "south")
            /\ Holds(pts, 9, -(L \div 2), "west")
            /\ Holds(pts, 3, -(L \div 2), "east")
            /\ Holds(pts, 2, L \div 2, "south")
            /\ Holds(pts, 6, L \div 2, "north")
            /\ Holds(pts, 8, L \div 2, "east")
            /\ Holds(pts, 4, L \div 2, "west")
            /\ \A p \in Range(pts) :
                   p.numberValue \in {5, 10} <=> (p.z = 0 /\ p.group = "center")
            /\ {<<p.x, p.y>> : p \in GroupOf(pts, 5)} =
                   {<<0, 0>>, <<0, SPACING>>, <<0, -SPACING>>,
                    <<SPACING, 0>>, <<-SPACING, 0>>}
            /\ \E top, btm \in {p.y : p \in GroupOf(pts, 10)} :
                   /\ top # btm
                   /\ \A y \in {top, btm} :
                          Cardinality({p.x : p \in {q \in GroupOf(pts, 10) :
                                                        q.y = y}}) = 5
            /\ \A p \in Range(pts) :
                   p.polarity = IF p.numberValue % 2 = 1 THEN "YANG" ELSE "YIN"

C12_Witness ==
    /\ call.fn = "AnimatedPoints"
    /\ Len(call.result.points) = 55

\* C13: generateLoShuPoints returns 45 points with distinct ids, k points in
\* the group k for k = 1..9, odd groups YANG and even groups YIN, and in each
\* group exactly one point, the first, carries the trigram and the direction.
C13_LoShuCatalog ==
    call.fn = "LoShuScene" =>
        LET pts == call.result
        IN  /\ Len(pts) = 45
            /\ DistinctIds(pts)
            /\ \A p \in Range(pts) : p.numberValue \in 1..9
            /\ \A n \in 1..9 : Cardinality(GroupOf(pts, n)) = n
            /\ \A p \in Range(pts) :
                   p.polarity = IF p.numberValue % 2 = 1 THEN "YANG" ELSE "YIN"
            /\ \A n \in 1..9 :
                   LET first == CHOOSE k \in 1..Len(pts) :
                                    /\ pts[k].numberValue = n
                                    /\ \A m \in 1..(k - 1) :
                                           pts[m].numberValue # n
                   IN  \A k \in 1..Len(pts) :
                           pts[k].numberValue = n =>
                               /\ (pts[k].trigram # "undefined") <=> (k = first)
                               /\ (pts[k].direction # "undefined")
                                      <=> (k = first)
                               /\ k = first =>
                                      /\ pts[k].trigram = TRIGRAMS[n]
                                      /\ pts[k].direction = DIRECTIONS[n]

C13_Witness ==
    /\ call.fn = "LoShuScene"
    /\ Len(call.result) = 45

\* The pattern of the center group: a cross with arms of 0.6 * gap
CenterCross ==
    {<<0, 0>>, <<0, (gap * 6) \div 10>>, <<0, -((gap * 6) \div 10)>>,
     <<(gap * 6) \div 10, 0>>, <<-((gap * 6) \div 10), 0>>}

\* C14, as claimed: the Luo Shu group 5 has 5 points with the local offsets
\* (0,0), (0,+-0.6 gap), (+-0.6 gap,0), and the spherePos of every one of the
\* five is the sphere's center (0,0,0).
C14_AllAtCenter ==
    call.fn = "LoShuScene" =>
        LET five == GroupOf(call.result, 5)
        IN  /\ Cardinality(five) = 5
            /\ {<<p.planePos[1], p.planePos[2]>> : p \in five} = CenterCross
            /\ \A p \in five : p.spherePos = Origin

\* C14, amended: the Luo Shu group 5 has 5 points with the local offsets
\* (0,0), (0,+-0.6 gap), (+-0.6 gap,0); the spherePos of each is its own
\* offset in the plane z = 0 through the sphere's center, unrotated, so that
\* the cross is centered on (0,0,0) and only its middle point is at (0,0,0).
C14_CrossAtCenter ==
    call.fn = "LoShuScene" =>
        LET five == GroupOf(call.result, 5)
        IN  /\ Cardinality(five) = 5
            /\ {<<p.planePos[1], p.planePos[2]>> : p \in five} = CenterCross
            /\ \A p \in five :
                   p.spherePos = <<p.planePos[1], p.planePos[2], 0>>
            /\ Cardinality({p \in five : p.spherePos = Origin}) = 1

C14_Witness ==
    /\ call.fn = "LoShuScene"
    /\ \E p \in GroupOf(call.result, 5) : p.spherePos # Origin

(* ------------------------------------------------------------------ *)
(* sortHeTuPoints (constants.ts)                                       *)
(* ------------------------------------------------------------------ *)

\* The points of a list whose group occurs in the sequence, in list order
Selected(list, sequence) ==
    SelectSeq(list, LAMBDA p : Includes(sequence, p.numberValue))

\* C15: sortHeTuPoints(points, sequence) returns exactly the points whose
\* numberValue occurs in sequence, each once, ordered first by the position of
\* the point's group in sequence and within a group by identifier, strictly
\* descending for the groups 4, 6 and 9 and strictly ascending for the others.
C15_SortOrder ==
    call.fn = "sortHeTuPoints" =>
        LET list == call.args[1]
            sequence == call.args[2]
            sorted == call.result
        IN  /\ Len(sorted) = Len(Selected(list, sequence))
            /\ Range(sorted) = Range(Selected(list, sequence))
            /\ \A i, j \in 1..Len(sorted) :
                   i < j =>
                       /\ IndexOf(sequence, sorted[i].numberValue)
                              <= IndexOf(sequence, sorted[j].numberValue)
                       /\ sorted[i].numberValue = sorted[j].numberValue =>
                              IF sorted[i].numberValue \in {4, 6, 9}
                              THEN LocaleCompare(sorted[i].id, sorted[j].id) > 0
                              ELSE LocaleCompare(sorted[i].id, sorted[j].id) < 0

\* Two points of a descending group come out in the opposite of their input
\* order, behind a point of the group that is first in the sequence.
C15_Witness ==
    /\ call.fn = "sortHeTuPoints"
    /\ Len(call.result) = 3
    /\ call.result[2].numberValue = 9
    /\ call.result[3].numberValue = 9
    /\ call.result # Selected(call.args[1], call.args[2])

\* C16: sortHeTuPoints is idempotent: sorting its own output by the same
\* sequence returns that output, element by element.
C16_SortIdempotent ==
    call.fn = "sortHeTuPoints" =>
        sortHeTuPoints(call.result, call.args[2]) = call.result

\* A sort that reordered at least two points.
C16_Witness ==
    /\ call.fn = "sortHeTuPoints"
    /\ Len(call.result) >= 2
    /\ call.result # Selected(call.args[1], call.args[2])

(* ------------------------------------------------------------------ *)
(* The arms and strands (constants.ts, HeTuScene.tsx)                  *)
(* ------------------------------------------------------------------ *)

\* The sequence the arm and the strand of a line are built from.
ArmSequence(line) ==
    IF line = "yang" THEN yangSequenceValues ELSE yinSequenceValues

\* C17: a PointLine connects the points in the order in which
\* generateGalaxyMap and generateHelixMap place them along the arm and the
\* strand: along the line the helix yOffset never decreases and the galaxy
\* accumulated angle (the arm's offset angle minus thetaStart) never
\* decreases.
C17_LineFollowsArm ==
    call.fn = "PointLine" =>
        LET line == call.result
        IN  /\ line = sortHeTuPoints(points, ArmSequence(call.args[1]))
            /\ \A i \in 1..(Len(line) - 1) :
                   /\ helixMap[line[i + 1].id].yOffset
                          >= helixMap[line[i].id].yOffset
                   /\ galaxyMap[line[i + 1].id].thetaStart
                          <= galaxyMap[line[i].id].thetaStart

C17_Witness ==
    /\ call.fn = "PointLine"
    /\ Len(call.result) = 20
    /\ helixMap[call.result[20].id].yOffset > helixMap[call.result[1].id].yOffset

\* C18: along each arm of generateGalaxyMap the radius never decreases with
\* the traversal index, and it is SPIRAL_START_R at the first point.
C18_RadiusMonotone ==
    call.fn = "AnimatedPoints" =>
        \A sequence \in {yangSequenceValues, yinSequenceValues} :
            LET arm == sortHeTuPoints(call.result.points, sequence)
                radius == [i \in 1..Len(arm) |-> call.result.galaxyMap[arm[i].id].r]
            IN  /\ radius[1] = SPIRAL_START_R
                /\ \A i \in 1..(Len(arm) - 1) : radius[i] <= radius[i + 1]

C18_Witness ==
    /\ call.fn = "AnimatedPoints"
    /\ LET arm == sortHeTuPoints(call.result.points, yangSequenceValues)
       IN  call.result.galaxyMap[arm[Len(arm)].id].r > SPIRAL_START_R

\* C19: along each strand of generateHelixMap the yOffset starts at
\* -totalH/2, grows by HELIX_GROUP_GAP where the group changes and by
\* HELIX_DOT_STEP elsewhere, and ends at +totalH/2; the radius is
\* HELIX_R_BOTTOM at the first point and HELIX_R_TOP at the last.
C19_StrandSymmetric ==
    call.fn = "AnimatedPoints" =>
        \A sequence \in {yangSequenceValues, yinSequenceValues} :
            LET strand == sortHeTuPoints(call.result.points, sequence)
                conf == [i \in 1..Len(strand) |->
                            call.result.helixMap[strand[i].id]]
                last == Len(strand)
                totalH == conf[last].yOffset - conf[1].yOffset
            IN  /\ \A i \in 1..(last - 1) :
                       conf[i + 1].yOffset - conf[i].yOffset =
                           IF strand[i + 1].numberValue # strand[i].numberValue
                           THEN HELIX_GROUP_GAP ELSE HELIX_DOT_STEP
                /\ conf[1].yOffset < conf[last].yOffset
                /\ 2 * conf[1].yOffset = -totalH
                /\ 2 * conf[last].yOffset = totalH
                /\ conf[1].r = HELIX_R_BOTTOM
                /\ conf[last].r = HELIX_R_TOP

C19_Witness ==
    /\ call.fn = "AnimatedPoints"
    /\ LET strand == sortHeTuPoints(call.result.points, yinSequenceValues)
       IN  /\ call.result.helixMap[strand[1].id].yOffset < 0
           /\ call.result.helixMap[strand[Len(strand)].id].yOffset > 0

(* ------------------------------------------------------------------ *)
(* generateLoShuEnergyPath (constants.ts)                              *)
(* ------------------------------------------------------------------ *)

\* C20: a leg of the path is sampled by linear interpolation exactly if its
\* start or its end is the center anchor 5, and by the spherical branch,
\* scaled to SPHERE_RADIUS * radiusScale, otherwise; the path has
\* (len(sequence) - 1) * segmentsPerLeg + 1 samples, begins at the position of
\* the first anchor and ends at the position of the last.
C20_EnergyPathLegs ==
    call.fn = "generateLoShuEnergyPath" =>
        LET sequence == call.args[1]
            radiusScale == call.args[2]
            n == call.args[3]
            path == call.result
            pos == [i \in 1..Len(sequence) |->
                       getPos(LOSHU_ANCHORS[sequence[i]], radiusScale)]
        IN  /\ Len(path) = (Len(sequence) - 1) * n + 1
            /\ path[1] = pos[1]
            /\ path[Len(path)] = pos[Len(sequence)]
            /\ \A i \in 1..(Len(sequence) - 1) :
                   /\ (LegMethod(sequence[i], sequence[i + 1], radiusScale)
                           = "LINEAR")
                          <=> (sequence[i] = 5 \/ sequence[i + 1] = 5)
                   /\ \A j \in 0..(n - 1) :
                          LET sample == path[(i - 1) * n + j + 1]
                          IN  IF sequence[i] = 5 \/ sequence[i + 1] = 5
                              THEN sample = LerpVec(pos[i], pos[i + 1], j, n)
                              ELSE \E sign \in {-1, 1} :
                                       sample = SurfaceSample(
                                                    pos[i], pos[i + 1],
                                                    radiusScale, j, n, sign)

\* A path with a leg into the center and a surface leg between two
\* different anchors.
C20_Witness ==
    /\ call.fn = "generateLoShuEnergyPath"
    /\ Len(call.args[1]) = 3
    /\ call.args[1][2] # 5
    /\ call.args[1][3] = 5
    /\ call.args[1][1] \notin {5, call.args[1][2]}
    /\ call.args[3] > 1

(* ------------------------------------------------------------------ *)
(* The energy path on degenerate legs (constants.ts)                   *)
(* ------------------------------------------------------------------ *)

\* The directions of the two anchors of a surface leg are the same or
\* opposite.
IsDegenerateLeg(startNum, endNum) ==
    /\ ~IsLinearLeg(startNum, endNum)
    /\ LET nStart == Normalize(LOSHU_ANCHORS[startNum])
           nEnd == Normalize(LOSHU_ANCHORS[endNum])
       IN  \/ nStart = nEnd
           \/ nStart = [k \in 1..3 |-> -nEnd[k]]

\* The length of v is the working radius, to a thousandth of it.
AtWorkingRadius(v, radiusScale) ==
    Abs(Sqrt(LengthSq(v)) - WorkingRadius(radiusScale)) * 1000
        <= WorkingRadius(radiusScale)

\* C21: a surface leg whose two anchor directions are identical or opposite
\* is not sampled with the SLERP weights (which divide by sin(theta)), and
\* every sample of such a leg lies at the working radius.
C21_DegenerateLegsLinear ==
    call.fn = "generateLoShuEnergyPath" =>
        LET sequence == call.args[1]
            radiusScale == call.args[2]
            n == call.args[3]
            path == call.result
        IN  \A i \in 1..(Len(sequence) - 1) :
                IsDegenerateLeg(sequence[i], sequence[i + 1]) =>
                    /\ LegMethod(sequence[i], sequence[i + 1], radiusScale)
                           # "SLERP"
                    /\ \A j \in 0..(n - 1) :
                           AtWorkingRadius(path[(i - 1) * n + j + 1],
                                           radiusScale)

(* ------------------------------------------------------------------ *)
(* The coordinate maps of the He Tu scene (constants.ts)               *)
(* ------------------------------------------------------------------ *)

\* The type a point's config has by the claim.
ConfigTypeOf(p) ==
    IF p.group = "center"
    THEN (IF p.polarity = "YANG" THEN "CORE" ELSE "RING")
    ELSE "ARM"

\* The keys of map are the ids of catalog, and every point's config has the
\* type of the point.
IsConfigMapOf(map, catalog) ==
    /\ DOMAIN map = {catalog[k].id : k \in 1..Len(catalog)}
    /\ \A k \in 1..Len(catalog) :
           map[catalog[k].id].type = ConfigTypeOf(catalog[k])

\* C22: for the catalog of generateHeTuPoints, generateGalaxyMap and
\* generateHelixMap each return a map whose keys are exactly the 55 catalog
\* ids, each assigned once; center YANG points are CORE, center YIN points are
\* RING and the points of the groups 1-4 and 6-9 are ARM.
C22_MapsCoverCatalog ==
    call.fn = "AnimatedPoints" =>
        LET catalog == call.result.points
        IN  /\ Len(catalog) = 55
            /\ Cardinality(DOMAIN call.result.galaxyMap) = 55
            /\ Cardinality(DOMAIN call.result.helixMap) = 55
            /\ IsConfigMapOf(call.result.galaxyMap, catalog)
            /\ IsConfigMapOf(call.result.helixMap, catalog)
            /\ \A k \in 1..Len(catalog) :
                   catalog[k].numberValue \in (1..4) \cup (6..9) =>
                       /\ call.result.galaxyMap[catalog[k].id].type = "ARM"
                       /\ call.result.helixMap[catalog[k].id].type = "ARM"

\* C22 witness: the maps of the mounted scene hold an arm config for a point
\* of group 8 and a ring config for a point of the lower center row.
C22_Witness ==
    /\ call.fn = "AnimatedPoints"
    /\ call.result.galaxyMap[IdOf(Earth, 8, 7)].type = "ARM"
    /\ call.result.helixMap[IdOf(Earth, 8, 7)].type = "ARM"
    /\ call.result.helixMap[CenterRowId(<<"b", "t", "m">>, 4)].type = "RING"

(* ------------------------------------------------------------------ *)
(* The blend targets (HeTuScene.tsx, LoShuScene.tsx)                   *)
(* ------------------------------------------------------------------ *)

\* C23: the He Tu blend target is 0 in STATIC and RETURNING and 1 in the six
\* galaxy- and helix-family states; the Luo Shu blend target is 0 in PLANE
\* and 1 in SPHERE and PROJECTION, whatever the flow and rotation flags are.
C23_BlendTargetByState ==
    /\ call.fn = "targetMorph" =>
           /\ call.args[1] \in {"STATIC", "RETURNING"} => call.result = 0
           /\ call.args[1] \in {"MORPHING", "RUNNING", "PAUSED",
                                "HELIX_MORPHING", "HELIX_RUNNING",
                                "HELIX_PAUSED"} => call.result = MorphScale
    /\ call.fn = "target" =>
           /\ call.args[1] = "PLANE" => call.result = 0
           /\ call.args[1] \in {"SPHERE", "PROJECTION"} =>
                  call.result = MorphScale

\* C23 witness: the Luo Shu target evaluated for PROJECTION with the flow
\* running and the sphere at rest.
C23_Witness ==
    /\ call.fn = "target"
    /\ call.args = <<"PROJECTION", TRUE, FALSE>>
    /\ call.result = MorphScale

(* ------------------------------------------------------------------ *)
(* The Luo Shu controls and the diagram switch (App.tsx)               *)
(* ------------------------------------------------------------------ *)

\* A step of one of the Luo Shu controls.
IsLoShuIntent ==
    \/ LoShuMorphToggle
    \/ LoShuFlowToggle
    \/ LoShuRotateToggle
    \/ \E key \in LayerKeys : ToggleLayer(key)
    \/ LoShuReset

\* C24: the morph toggle changes lsMorph and leaves the flow flag, the
\* rotation flag and the layers unchanged, also on its way back to PLANE; the
\* flow toggle and the rotate toggle invert their own flag and change nothing
\* else; toggleLayer inverts the named layer and leaves the other four layers,
\* the morph state and both flags unchanged; no Luo Shu control changes the
\* pending timers or the He Tu state.
C24_LoShuIntentsOrthogonal ==
    [][/\ LoShuMorphToggle =>
              /\ lsMorph' # lsMorph
              /\ UNCHANGED <<lsRunning, lsSphereRotating, lsLayers>>
       /\ LoShuFlowToggle =>
              /\ lsRunning' = ~lsRunning
              /\ UNCHANGED <<lsMorph, lsSphereRotating, lsLayers>>
       /\ LoShuRotateToggle =>
              /\ lsSphereRotating' = ~lsSphereRotating
              /\ UNCHANGED <<lsMorph, lsRunning, lsLayers>>
       /\ \A key \in LayerKeys :
              ToggleLayer(key) =>
                  /\ lsLayers'[key] = ~lsLayers[key]
                  /\ \A other \in LayerKeys \ {key} :
                         lsLayers'[other] = lsLayers[other]
                  /\ UNCHANGED <<lsMorph, lsRunning, lsSphereRotating>>
       /\ IsLoShuIntent =>
              UNCHANGED <<timers, animState, lastMode, viewMode, heTuUi>>]_vars

\* C24 witness: back in PLANE with the flow and the rotation still switched
\* on, the lines layer shown and the dots layer hidden.
C24_Witness ==
    /\ lsMorph = "PLANE"
    /\ lsRunning
    /\ lsSphereRotating
    /\ lsLayers["lines"]
    /\ ~lsLayers["dots"]
    /\ ~lsLayers["numbers"]

\* The Luo Shu state App starts with.
IsInitialLoShuState ==
    /\ lsMorph = "PLANE"
    /\ lsRunning = FALSE
    /\ lsSphereRotating = FALSE
    /\ lsLayers = [k \in LayerKeys |-> k = "dots"]

\* C25: App starts with morph PLANE, flow and rotation off and only the dots
\* layer shown; handleLoShuReset leads to this state from every reachable
\* state, changes nothing when it is applied to the state it has produced, and
\* leaves the He Tu state and the pending timers unchanged.
C25_LoShuResetRestoresInitial ==
    /\ IsInitialLoShuState
    /\ [][LoShuReset =>
              /\ IsInitialLoShuState'
              /\ IsInitialLoShuState => UNCHANGED vars
              /\ UNCHANGED <<animState, lastMode, timers, heTuUi,
                             viewMode>>]_vars

\* C25 witness: the Luo Shu diagram in its initial state while the He Tu
\* machine, left in mid-return, still has its timer pending.
C25_Witness ==
    /\ viewMode = "LOSHU"
    /\ IsInitialLoShuState
    /\ animState = "RETURNING"
    /\ lastMode = "HELIX"
    /\ timers # << >>
    /\ autoRotate

(* ------------------------------------------------------------------ *)
(* The target mode of the He Tu scene (HeTuScene.tsx)                  *)
(* ------------------------------------------------------------------ *)

\* What a He Tu frame does to modeRef by the claim.
FrameSetsMode ==
    \A d \in Deltas :
        HeTuFrame(d) =>
            /\ animState \in {"HELIX_MORPHING", "HELIX_RUNNING",
                              "HELIX_PAUSED"} => modeRef' = "HELIX"
            /\ animState \in {"MORPHING", "RUNNING", "PAUSED"} =>
                   modeRef' = "GALAXY"
            /\ animState \in {"STATIC", "RETURNING"} => modeRef' = modeRef

\* A step that replaces the He Tu scene by the Luo Shu scene or back.
IsRemount == viewMode' # viewMode

\* C26 as claimed: a frame sets modeRef to HELIX in the helix family, to
\* GALAXY in the galaxy family and leaves it unchanged in STATIC and
\* RETURNING; modeRef never returns to NONE once it has left it.
C26_ModeNeverBackToNone ==
    [][/\ FrameSetsMode
       /\ modeRef # "NONE" => modeRef' # "NONE"]_vars

\* C26 amended: a frame sets modeRef to HELIX in the helix family, to GALAXY
\* in the galaxy family and leaves it unchanged in STATIC and RETURNING;
\* nothing but such a frame changes modeRef while the scene stays mounted, and
\* it is NONE again exactly when a diagram switch has replaced the scene.
C26_ModePerMount ==
    [][/\ FrameSetsMode
       /\ IsRemount => modeRef' = "NONE"
       /\ (modeRef' # modeRef /\ ~IsRemount) =>
              /\ \E d \in Deltas : HeTuFrame(d)
              /\ animState \notin {"STATIC", "RETURNING"}
              /\ modeRef' # "NONE"]_vars

\* C26 witness: frames rendered while RETURNING from the helix have kept the
\* helix as the mode the dots and lines blend back from.
C26_Witness ==
    /\ animState = "RETURNING"
    /\ modeRef = "HELIX"
    /\ dotInputs # NotDrawn
    /\ dotInputs.helix
    /\ dotInputs.morph > 0
    /\ dotInputs.morph < MorphScale
    /\ lineInputs["yin"] = dotInputs

(* ------------------------------------------------------------------ *)
(* Timers and labels of the He Tu state machine (App.tsx)              *)
(* ------------------------------------------------------------------ *)

\* A pending timer whose guard is the current state.
HasMatchingTimer ==
    \E i \in 1..Len(timers) : timers[i] = animState

\* C27: whenever animState is MORPHING, HELIX_MORPHING or RETURNING a timer
\* whose guard is that state is pending; a firing timer changes such a state
\* only to RUNNING, HELIX_RUNNING or STATIC respectively; and with timers that
\* fire the state is always left.
C27_TimeBoxedStatesEnd ==
    /\ [](animState \in TimeBoxed => HasMatchingTimer)
    /\ [][(IsTimerStep /\ animState \in TimeBoxed /\ animState' # animState)
             => animState' = Settled(animState)]_vars
    /\ \A m \in TimeBoxed : (animState = m) ~> (animState # m)

\* C27 witness: RETURNING with its own timer pending behind the timers of
\* two transitions that were superseded.
C27_Witness ==
    /\ animState = "RETURNING"
    /\ timers = <<"MORPHING", "HELIX_MORPHING", "RETURNING">>

\* The family whose animation is being returned from once a step has led to
\* RETURNING: the family of the state the step left, and the one already
\* being returned from if that state was RETURNING itself.
ReturnedFamily ==
    IF animState \in HelixFamily THEN "HELIX"
    ELSE IF animState \in GalaxyFamily THEN "GALAXY"
    ELSE lastMode

\* C28: whenever animState is RETURNING, lastMode names the family of the
\* last galaxy- or helix-family state before RETURNING was entered, also
\* after a reset click that arrives while the state is RETURNING already.
C28_LastModeNamesReturnedFamily ==
    [][animState' = "RETURNING" => lastMode' = ReturnedFamily]_vars

\* C29: lsMorph is PLANE or SPHERE in every reachable state, never
\* PROJECTION; a morph toggle leads from PLANE to SPHERE and from SPHERE to
\* PLANE, and apart from it only the Luo Shu reset changes lsMorph (to PLANE).
C29_ProjectionUnreachable ==
    /\ [](lsMorph \in {"PLANE", "SPHERE"})
    /\ [][/\ LoShuMorphToggle =>
                 <<lsMorph, lsMorph'>> \in {<<"PLANE", "SPHERE">>,
                                            <<"SPHERE", "PLANE">>}
          /\ lsMorph' # lsMorph =>
                 \/ LoShuMorphToggle
                 \/ LoShuReset /\ lsMorph' = "PLANE"]_vars

\* C29 witness: the sphere reached by the morph toggle, with the rotation
\* switched on there and the diagram left for He Tu afterwards.
C29_Witness ==
    /\ lsMorph = "SPHERE"
    /\ lsSphereRotating
    /\ ~lsRunning
    /\ viewMode = "HETU"

\* C30: selecting a diagram changes nothing of App's state but viewMode:
\* animState, lastMode, autoRotate, the pending timers and the Luo Shu state
\* stay as they are; a pending timer can fire whichever diagram is shown; and
\* while the Luo Shu diagram is shown the He Tu state changes only by the
\* oldest pending timer firing with its guard, as it would without the switch.
C30_SwitchKeepsMachines ==
    /\ [](timers # << >> => ENABLED TimerFire)
    /\ [][/\ \A v \in ViewMode :
                 SelectView(v) =>
                     /\ viewMode' = v
                     /\ UNCHANGED <<animState, lastMode, timers, heTuUi,
                                    lsMorph, loShuUi>>
          /\ (/\ viewMode = "LOSHU"
              /\ <<animState, lastMode, timers, heTuUi>>'
                     # <<animState, lastMode, timers, heTuUi>>) =>
                 /\ timers # << >>
                 /\ timers' = Tail(timers)
                 /\ animState' = IF animState = Head(timers)
                                   THEN Settled(animState) ELSE animState
                 /\ UNCHANGED <<lastMode, heTuUi, viewMode>>]_vars

\* C30 witness: the Luo Shu diagram is shown, with its numbers layer switched
\* on, while the He Tu machine is in MORPHING and its timer is pending.
C30_Witness ==
    /\ viewMode = "LOSHU"
    /\ animState = "MORPHING"
    /\ timers = <<"MORPHING">>
    /\ autoRotate
    /\ lsLayers["numbers"]
    /\ lsMorph = "SPHERE"

====
